---- MODULE Spec2Model ----
(***************************************************************************)
(* Model of the answer-grading and accuracy-aggregation engine of          *)
(* fin-reasoning-eval (evaluation/metrics.py), and of the rubric grader,   *)
(* the taxonomy coverage report, the leaderboard and the runner's retry    *)
(* loop.  Each part has a specification of its own over the same           *)
(* variables; the variables of the other parts stay at their first values. *)
(*                                                                         *)
(* Python strings are TLA+ strings; the string functions work on their     *)
(* character sequences (Chars).  Python floats are modelled as exact       *)
(* decimals [n, d] standing for n / 10^d: binary rounding is not modelled. *)
(* A Python call either returns a value or raises; an outcome is the       *)
(* record [raised, value] with raised = "" for a normal return.            *)
(***************************************************************************)
EXTENDS Integers, Sequences, FiniteSets, TLC

VARIABLES
    predicted,      \* arguments of the most recent _check_correctness call
    reference,
    answer_type,
    tolerance,
    outcome,        \* what that call returned or raised
    pc,             \* "call" before the grading call returns, "done" after
    _predictions,   \* FinancialReasoningMetrics._predictions
    results,        \* the EvaluationResults of the most recent compute()
    batch,          \* the most recent add_batch call and the list it found
    criteria,       \* RubricGrader.criteria
    _by_category,   \* RubricGrader._by_category
    judgments,      \* argument of the most recent RubricGrader.score call
    rubric,         \* what that call returned or raised
    construction,   \* how the RubricGrader was constructed, and from what
    coverage,       \* the most recent analyze_coverage call and its result
    entries,        \* Leaderboard.entries
    storage,        \* the entries in the file at Leaderboard.storage_path
    last_add,       \* the most recent add_entry call and what it returned
    config,         \* BaseRunner.config
    attempt,        \* loop variable of _generate_with_retry
    last_error,     \* its local last_error
    generated,      \* the outcomes of its generate calls, in order
    slept,          \* the arguments of its time.sleep calls, in order
    retry_result,   \* what it returned or raised
    retry_pc        \* where it is: "idle", "try", "caught", "done"

vars == <<predicted, reference, answer_type, tolerance, outcome, pc,
          _predictions, results, batch, criteria, _by_category, judgments,
          rubric, construction, coverage, entries, storage, last_add, config,
          attempt, last_error, generated, slept, retry_result, retry_pc>>

gradeVars == <<predicted, reference, answer_type, tolerance, outcome, pc>>

rubricVars == <<criteria, _by_category, judgments, rubric, construction>>

boardVars == <<entries, storage, last_add>>

retryVars == <<config, attempt, last_error, generated, slept, retry_result,
               retry_pc>>

\* the taxonomy report, the leaderboard and the runner, which the grading
\* engine does not touch
outerVars == <<coverage, boardVars, retryVars>>

-----------------------------------------------------------------------------
(* Characters and Python str methods *)

Chars(s) == [i \in 1..Len(s) |-> SubSeq(s, i, i)]

UpperCase == Chars("ABCDEFGHIJKLMNOPQRSTUVWXYZ")
LowerCase == Chars("abcdefghijklmnopqrstuvwxyz")
Digits == {"0", "1", "2", "3", "4", "5", "6", "7", "8", "9"}
Whitespace == {" ", "\t", "\n"}

Letters == {UpperCase[i] : i \in 1..26} \cup {LowerCase[i] : i \in 1..26}

\* \w of the re module: letters, digits and the underscore
IsWordChar(c) == c \in Letters \cup Digits \cup {"_"}

LowerChar(c) ==
    IF \E i \in 1..26 : UpperCase[i] = c
    THEN LowerCase[CHOOSE i \in 1..26 : UpperCase[i] = c]
    ELSE c

\* str.lower()
Lower(cs) == [i \in 1..Len(cs) |-> LowerChar(cs[i])]

\* str.upper() of one letter
UpperChar(c) ==
    IF \E i \in 1..26 : LowerCase[i] = c
    THEN UpperCase[CHOOSE i \in 1..26 : LowerCase[i] = c]
    ELSE c

RECURSIVE LStrip(_, _)
LStrip(cs, set) ==
    IF cs # <<>> /\ Head(cs) \in set THEN LStrip(Tail(cs), set) ELSE cs

RECURSIVE RStrip(_, _)
RStrip(cs, set) ==
    IF cs # <<>> /\ cs[Len(cs)] \in set
    THEN RStrip(SubSeq(cs, 1, Len(cs) - 1), set)
    ELSE cs

\* str.strip(chars); str.strip() is StripChars(cs, Whitespace)
StripChars(cs, set) == RStrip(LStrip(cs, set), set)

\* str.startswith(prefix)
StartsWith(cs, prefix) ==
    Len(prefix) <= Len(cs) /\ SubSeq(cs, 1, Len(prefix)) = prefix

\* needle in haystack
Contains(haystack, needle) ==
    \E i \in 0..(Len(haystack) - Len(needle)) :
        \A k \in 1..Len(needle) : haystack[i + k] = needle[k]

\* str.replace(c, '') for every c of the set
RemoveChars(cs, set) == SelectSeq(cs, LAMBDA c : c \notin set)

-----------------------------------------------------------------------------
(* Outcomes of a call *)

Return(v) == [raised |-> "", value |-> v]
Raise(e) == [raised |-> e, value |-> FALSE]

-----------------------------------------------------------------------------
(* Text / multiple-choice grading *)

AnswerPrefixes ==
    <<Chars("the answer is"), Chars("answer:"), Chars("my answer is"),
      Chars("i choose")>>

EdgePunctuation == {".", ",", "!", "?", ":", ";"}

OptionLetters == {"A", "B", "C", "D", "a", "b", "c", "d"}

\* the loop over prefixes: each is tried once, in order, on the current text
RECURSIVE RemovePrefixes(_, _)
RemovePrefixes(cs, k) ==
    IF k > Len(AnswerPrefixes) THEN cs
    ELSE IF StartsWith(cs, AnswerPrefixes[k])
         THEN RemovePrefixes(
                  StripChars(SubSeq(cs, Len(AnswerPrefixes[k]) + 1, Len(cs)),
                             Whitespace), k + 1)
         ELSE RemovePrefixes(cs, k + 1)

\* re.sub(sign \$ (\d), $ sign \1): leftmost non-overlapping matches
RECURSIVE SwapSignDollar(_, _)
SwapSignDollar(cs, sign) ==
    IF cs = <<>> THEN <<>>
    ELSE IF Len(cs) >= 3 /\ cs[1] = sign /\ cs[2] = "$" /\ cs[3] \in Digits
         THEN <<"$", sign, cs[3]>> \o SwapSignDollar(SubSeq(cs, 4, Len(cs)), sign)
         ELSE <<cs[1]>> \o SwapSignDollar(Tail(cs), sign)

_normalize_answer(answer) ==
    LET lowered == StripChars(Lower(Chars(answer)), Whitespace)
        unprefixed == RemovePrefixes(lowered, 1)
        unpunctuated == StripChars(unprefixed, EdgePunctuation)
        plus == SwapSignDollar(unpunctuated, "+")
    IN  SwapSignDollar(plus, "-")

\* re.search(r'\b([A-Da-d])\b'): positions of a standalone option letter
StandaloneAt(cs, i) ==
    /\ cs[i] \in OptionLetters
    /\ (i = 1 \/ ~IsWordChar(cs[i - 1]))
    /\ (i = Len(cs) \/ ~IsWordChar(cs[i + 1]))

\* the option letter, or "None"
_extract_option_letter(text) ==
    LET cs == Chars(text)
        hits == {i \in 1..Len(cs) : StandaloneAt(cs, i)}
    IN  IF hits # {}
        THEN UpperChar(cs[CHOOSE i \in hits : \A j \in hits : i <= j])
        ELSE IF Len(cs) >= 2 /\ cs[1] \in OptionLetters
                /\ cs[2] \in {".", ")", ":"} \cup Whitespace
             THEN UpperChar(cs[1])
             ELSE "None"

\* _check_text without the containment rule
_check_text_no_substring(pred, ref) ==
    LET pred_clean == _normalize_answer(pred)
        ref_clean == _normalize_answer(ref)
        pred_letter == _extract_option_letter(pred)
        ref_letter == _extract_option_letter(ref)
    IN  IF pred_clean = ref_clean THEN TRUE
        ELSE IF pred_letter # "None" /\ ref_letter # "None"
             THEN pred_letter = ref_letter
             ELSE FALSE

_check_text(pred, ref) ==
    LET pred_clean == _normalize_answer(pred)
        ref_clean == _normalize_answer(ref)
        pred_letter == _extract_option_letter(pred)
        ref_letter == _extract_option_letter(ref)
    IN  IF pred_clean = ref_clean THEN TRUE
        ELSE IF Contains(pred_clean, ref_clean) THEN TRUE
        ELSE IF pred_letter # "None" /\ ref_letter # "None"
             THEN pred_letter = ref_letter
             ELSE FALSE

-----------------------------------------------------------------------------
(* Boolean grading *)

true_values == {Chars("true"), Chars("yes"), Chars("1"), Chars("correct")}
false_values == {Chars("false"), Chars("no"), Chars("0"), Chars("incorrect")}

\* _check_boolean without the vocabulary guard on the prediction
_check_boolean_unguarded(pred, ref) ==
    LET pred_lower == StripChars(Lower(Chars(pred)), Whitespace)
        ref_lower == StripChars(Lower(Chars(ref)), Whitespace)
    IN  (pred_lower \in true_values) = (ref_lower \in true_values)

_check_boolean(pred, ref) ==
    LET pred_lower == StripChars(Lower(Chars(pred)), Whitespace)
        ref_lower == StripChars(Lower(Chars(ref)), Whitespace)
        pred_bool == pred_lower \in true_values
        ref_bool == ref_lower \in true_values
    IN  IF pred_lower \in true_values \/ pred_lower \in false_values
        THEN pred_bool = ref_bool
        ELSE FALSE

-----------------------------------------------------------------------------
(* Decimal numbers: [n, d] stands for n / 10^d; none marks Python's None *)

Dec(n, d) == [none |-> FALSE, n |-> n, d |-> d]
NoneNumber == [none |-> TRUE, n |-> 0, d |-> 0]

RECURSIVE Pow10(_)
Pow10(k) == IF k = 0 THEN 1 ELSE 10 * Pow10(k - 1)

Max(a, b) == IF a >= b THEN a ELSE b

Scaled(x, d) == x.n * Pow10(d - x.d)

DecLess(x, y) == LET d == Max(x.d, y.d) IN Scaled(x, d) < Scaled(y, d)
DecLessEq(x, y) == LET d == Max(x.d, y.d) IN Scaled(x, d) <= Scaled(y, d)
DecSub(x, y) == LET d == Max(x.d, y.d) IN Dec(Scaled(x, d) - Scaled(y, d), d)
DecAbs(x) == Dec(IF x.n < 0 THEN -x.n ELSE x.n, x.d)
DecMul(x, y) == Dec(x.n * y.n, x.d + y.d)

-----------------------------------------------------------------------------
(* Numeric grading *)

DigitValue(c) == CHOOSE v \in 0..9 : Chars("0123456789")[v + 1] = c

RECURSIVE DigitsToInt(_)
DigitsToInt(cs) ==
    IF cs = <<>> THEN 0
    ELSE 10 * DigitsToInt(SubSeq(cs, 1, Len(cs) - 1)) + DigitValue(cs[Len(cs)])

\* length of the longest run of digits starting at position i
RECURSIVE DigitRun(_, _)
DigitRun(cs, i) ==
    IF i <= Len(cs) /\ cs[i] \in Digits THEN 1 + DigitRun(cs, i + 1) ELSE 0

\* float(text) for the numerals the program can pass: -?digits[.digits]
Float(cs) ==
    LET neg == cs # <<>> /\ cs[1] = "-"
        first == IF neg THEN 2 ELSE 1
        whole == DigitRun(cs, first)
        dot == first + whole <= Len(cs) /\ cs[first + whole] = "."
        frac == IF dot THEN DigitRun(cs, first + whole + 1) ELSE 0
        last == first + whole - 1 + (IF dot THEN 1 + frac ELSE 0)
        mantissa == DigitsToInt(SubSeq(cs, first, first + whole - 1)
                                \o SubSeq(cs, first + whole + 1,
                                          first + whole + frac))
    IN  IF whole = 0 \/ last # Len(cs)
        THEN Raise("ValueError")
        ELSE Return(Dec(IF neg THEN -mantissa ELSE mantissa, frac))

\* a match of -?\d+\.?\d* can begin at position i
NumberStartsAt(cs, i) ==
    \/ cs[i] \in Digits
    \/ cs[i] = "-" /\ i < Len(cs) /\ cs[i + 1] \in Digits

\* the text of the match of -?\d+\.?\d* that begins at position i (greedy)
NumberMatch(cs, i) ==
    LET first == IF cs[i] = "-" THEN i + 1 ELSE i
        whole == DigitRun(cs, first)
        dot == first + whole <= Len(cs) /\ cs[first + whole] = "."
        frac == IF dot THEN DigitRun(cs, first + whole + 1) ELSE 0
    IN  SubSeq(cs, i, first + whole - 1 + (IF dot THEN 1 + frac ELSE 0))

\* the outcome holds the first number of the text, or NoneNumber
_extract_number(text) ==
    LET cs == RemoveChars(Chars(text), {",", "$", "%"})
        starts == {i \in 1..Len(cs) : NumberStartsAt(cs, i)}
    IN  IF starts # {}
        THEN Float(NumberMatch(cs, CHOOSE i \in starts : \A j \in starts : i <= j))
        ELSE Return(NoneNumber)

\* try: ... except (ValueError, ZeroDivisionError): return False
CatchArithmetic(o) ==
    IF o.raised \in {"ValueError", "ZeroDivisionError"} THEN Return(FALSE) ELSE o

\* abs(pred_val - ref_val) / abs(ref_val) <= tol, decided without rounding
RelativeErrorWithin(pred_val, ref_val, tol) ==
    IF ref_val.n = 0
    THEN Raise("ZeroDivisionError")
    ELSE Return(DecLessEq(DecAbs(DecSub(pred_val, ref_val)),
                          DecMul(tol, DecAbs(ref_val))))

\* _check_numeric without the None test: abs() of None raises TypeError
_check_numeric_no_none_test(pred, ref, tol) ==
    LET p == _extract_number(pred)
        r == _extract_number(ref)
    IN  CatchArithmetic(
            IF p.raised # "" THEN p
            ELSE IF r.raised # "" THEN r
            ELSE IF p.value.none \/ r.value.none THEN Raise("TypeError")
            ELSE IF r.value.n = 0 THEN Return(DecLess(DecAbs(p.value), tol))
            ELSE RelativeErrorWithin(p.value, r.value, tol))

_check_numeric(pred, ref, tol) ==
    LET p == _extract_number(pred)
        r == _extract_number(ref)
    IN  CatchArithmetic(
            IF p.raised # "" THEN p
            ELSE IF r.raised # "" THEN r
            ELSE IF p.value.none \/ r.value.none THEN Return(FALSE)
            ELSE IF r.value.n = 0 THEN Return(DecLess(DecAbs(p.value), tol))
            ELSE RelativeErrorWithin(p.value, r.value, tol))

-----------------------------------------------------------------------------
(* Dispatch on the answer type *)

DefaultTolerance == Dec(1, 2)

\* Python truthiness of an Optional[float]: None and 0.0 are falsy
Truthy(tol) == ~tol.none /\ tol.n # 0

_check_correctness(pred, ref, type, tol) ==
    IF type = "numeric"
    THEN _check_numeric(pred, ref, IF Truthy(tol) THEN tol ELSE DefaultTolerance)
    ELSE IF type = "boolean"
    THEN Return(_check_boolean(pred, ref))
    ELSE Return(_check_text(pred, ref))

-----------------------------------------------------------------------------
(* Before any add_batch call; before any RubricGrader is constructed *)

NoBatch ==
    [called |-> FALSE, predictions |-> <<>>, references |-> <<>>,
     before |-> <<>>]

NoGrader ==
    /\ criteria = <<>>
    /\ _by_category = <<>>
    /\ judgments = <<>>
    /\ rubric = [raised |-> "pending", value |-> FALSE]
    /\ construction = [via |-> "", argument |-> [none |-> TRUE, list |-> <<>>],
                       raised |-> ""]

\* no analyze_coverage call made; a Leaderboard constructed with no file at
\* its storage path; a runner constructed and not yet asked to generate
OuterIdle ==
    /\ coverage = [called |-> FALSE, problem_categories |-> <<>>, result |-> <<>>]
    /\ entries = <<>>
    /\ storage = [exists |-> FALSE, entries |-> <<>>]
    /\ last_add = [called |-> FALSE, entry |-> <<>>, before |-> <<>>, returned |-> 0]
    /\ config = [model_name |-> "model", max_retries |-> 3, retry_delay |-> 1]
    /\ attempt = 0
    /\ last_error = "None"
    /\ generated = <<>>
    /\ slept = <<>>
    /\ retry_result = [raised |-> "pending", value |-> FALSE]
    /\ retry_pc = "idle"

-----------------------------------------------------------------------------
(* Inputs of the grading function *)

NoTolerance == NoneNumber

TextAnswers ==
    {"A", "B", "b", "C", "B. Margin expansion", "The answer is: B.",
     "I choose (D)", "beat by 12%", "I believe the answer is beat by 12%",
     "+$38M", "$+38M", "$38M", "-$38M", "$-38M", "", "  ", ".", "answer:"}

BooleanAnswers ==
    {"true", "Yes", " NO ", "false", "correct", "incorrect", "maybe", "1", "0"}

NumericAnswers ==
    {"100", "100.5", "101", "101.5", "-100", "-100.5", "-101", "-101.5",
     "1.005", "0.005", "-0.005", "0.01", "0.0", "$1,010", "about 99.5%",
     "n/a", "-", "5."}

Answers == TextAnswers \cup BooleanAnswers \cup NumericAnswers

AnswerTypes == {"numeric", "boolean", "multiple_choice", "text", "essay"}

Tolerances ==
    {NoTolerance, Dec(0, 0), Dec(1, 2), Dec(5, 3), Dec(5, 2), Dec(-1, 2)}

NotReturned == [raised |-> "pending", value |-> FALSE]

-----------------------------------------------------------------------------
(* The metrics aggregator: FinancialReasoningMetrics *)

MaxPredictions == 2

\* Problem records of the dataset the predictions answer
Problem(id, category, difficulty, correct_answer, type, tol) ==
    [id |-> id, category |-> category, difficulty |-> difficulty,
     correct_answer |-> correct_answer, answer_type |-> type,
     tolerance |-> tol]

Problems ==
    {Problem("p1", "earnings_surprise", "easy", "A", "multiple_choice",
             NoTolerance),
     Problem("p2", "dcf_sanity", "hard", "100", "numeric", NoTolerance),
     Problem("p3", "earnings_surprise", "hard", "100", "numeric", NoTolerance)}

NoReasoning == [none |-> TRUE, text |-> ""]
Reasoning(text) == [none |-> FALSE, text |-> text]

\* ModelResponse(answer, reasoning, confidence)
ModelResponse(answer, reasoning, confidence) ==
    [answer |-> answer, reasoning |-> reasoning, confidence |-> confidence]

\* what a model may respond to a problem: right, wrong or malformed, with or
\* without reasoning and confidence
ModelResponses(problem) ==
    IF problem.id = "p1"
    THEN {ModelResponse("A", NoReasoning, Dec(9, 1)),
          ModelResponse("B", Reasoning("I guess"), Dec(65, 2))}
    ELSE IF problem.id = "p2"
    THEN {ModelResponse("101", Reasoning("EPS growth = 1%, thus the margin holds"),
                        Dec(1, 0)),
          ModelResponse("n/a", Reasoning("However, not enough data"), NoneNumber)}
    ELSE {ModelResponse("102", NoReasoning, NoneNumber)}

\* further responses, at the edges of what compute() distinguishes: an empty
\* reasoning text, texts of exactly 20 and 21 characters, a confidence of 0.0
BoundaryResponses(problem) ==
    IF problem.id = "p1"
    THEN {ModelResponse("A", Reasoning(""), NoneNumber)}
    ELSE IF problem.id = "p2"
    THEN {ModelResponse("100", Reasoning("EPS growth ratio = 2x"), NoneNumber)}
    ELSE {ModelResponse("100", Reasoning("EPS growth ratio = 2"), Dec(0, 0))}

\* the reasoning texts of these responses
ReasoningTexts ==
    {r.reasoning.text :
        r \in UNION {ModelResponses(q) \cup BoundaryResponses(q) : q \in Problems}}

\* a fraction correct / total, kept exact
Ratio(num, den) == [num |-> num, den |-> den]

\* an Optional[float] result kept as a fraction; none marks None
SomeRatio(num, den) == [none |-> FALSE, num |-> num, den |-> den]
NoneRatio == [none |-> TRUE, num |-> 0, den |-> 1]

\* the state before any compute() call
NoResults ==
    [computed |-> FALSE, total_examples |-> 0, overall_accuracy |-> Ratio(0, 1),
     category_accuracy |-> <<>>, difficulty_accuracy |-> <<>>,
     reasoning_quality |-> NoneNumber, calibration_error |-> NoneRatio,
     correct_count |-> 0, predictions |-> <<>>, aliased |-> FALSE,
     raised |-> ""]

\* PredictionResult(...)
PredictionResult(problem_id, pred, ref, is_correct, category, difficulty, reasoning, confidence, latency_ms) ==
    [problem_id |-> problem_id, predicted_answer |-> pred,
     correct_answer |-> ref, is_correct |-> is_correct,
     category |-> category, difficulty |-> difficulty,
     reasoning |-> reasoning, confidence |-> confidence,
     latency_ms |-> latency_ms]

\* the counters of compute(): correct, category_total / category_correct,
\* difficulty_total / difficulty_correct
\* a count of the correct predictions that stops at the first incorrect one
CorrectCount_leading(list) ==
    Cardinality({i \in 1..Len(list) : \A j \in 1..i : list[j].is_correct})
CorrectCount(list) ==
    Cardinality({i \in 1..Len(list) : list[i].is_correct})
\* a category total that counts every stored prediction
CategoryTotal_of_all(list, cat) == Len(list)
CategoryTotal(list, cat) ==
    Cardinality({i \in 1..Len(list) : list[i].category = cat})
CategoryCorrect(list, cat) ==
    Cardinality({i \in 1..Len(list) : list[i].category = cat /\ list[i].is_correct})
DifficultyTotal(list, diff) ==
    Cardinality({i \in 1..Len(list) : list[i].difficulty = diff})
DifficultyCorrect(list, diff) ==
    Cardinality({i \in 1..Len(list) : list[i].difficulty = diff /\ list[i].is_correct})

\* reasoning quality and calibration error of compute()

OperatorTokens ==
    {Chars(w) : w \in {"=", "×", "÷", "/", "*", "calculate"}}

financial_concepts ==
    {Chars(w) : w \in
        {"margin", "ratio", "growth", "dcf", "ebitda", "eps", "revenue",
         "cash flow", "working capital", "leverage", "coverage", "valuation",
         "discount", "terminal", "wacc", "roe", "roic", "dupont",
         "accrual", "red flag", "related party", "earnings"}}

step_markers ==
    {Chars(w) : w \in
        {"step 1", "step 2", "first", "second", "next", "then",
         "therefore", "thus", "because", "since", "given that",
         "1.", "2.", "3."}}

awareness_markers ==
    {Chars(w) : w \in
        {"however", "although", "risk", "assumption", "caveat",
         "note that", "important", "consider", "alternatively",
         "potential", "concern", "limitation", "may not", "could"}}

\* the number of phrases of the set that occur in the text
Occurring(cs, phrases) == Cardinality({w \in phrases : Contains(cs, w)})

\* twice the score of one reasoning text (the length test gives half points);
\* (score / checks) * 5.0 with checks = 5 is the score itself
ReasoningHalfPoints(text) ==
    LET reasoning == Lower(Chars(text))
    IN  (IF Occurring(reasoning, OperatorTokens) >= 1 THEN 2 ELSE 0)
      + (IF Occurring(reasoning, financial_concepts) >= 2 THEN 2 ELSE 0)
      + (IF Occurring(reasoning, step_markers) >= 2 THEN 2 ELSE 0)
      + (IF Len(reasoning) > 100 THEN 1 ELSE 0)
      + (IF Len(reasoning) > 300 THEN 1 ELSE 0)
      + (IF Occurring(reasoning, awareness_markers) >= 1 THEN 2 ELSE 0)

\* the scores of the texts that occur, tabulated once
HalfPointsOf == [text \in ReasoningTexts |-> ReasoningHalfPoints(text)]

\* round(num / den, 2) in hundredths, ties to even
Round2(num, den) ==
    LET q == (num * 100) \div den
        r == (num * 100) % den
    IN  IF 2 * r > den \/ (2 * r = den /\ q % 2 = 1) THEN q + 1 ELSE q

RECURSIVE SumOver(_, _)
SumOver(f, indices) ==
    IF indices = {} THEN 0
    ELSE LET i == CHOOSE j \in indices : TRUE
         IN  f[i] + SumOver(f, indices \ {i})

\* the reasoning quality with texts of 20 characters scored as well
_compute_reasoning_quality_from_20(list) ==
    LET scored == {i \in 1..Len(list) :
                      /\ ~list[i].reasoning.none
                      /\ Len(list[i].reasoning.text) >= 20}
        half == [i \in scored |-> HalfPointsOf[list[i].reasoning.text]]
    IN  IF scored = {}
        THEN NoneNumber
        ELSE Dec(Round2(SumOver(half, scored), 2 * Cardinality(scored)), 2)

\* the mean score over the predictions with reasoning of more than 20
\* characters, rounded to two decimals, or None
_compute_reasoning_quality(list) ==
    LET scored == {i \in 1..Len(list) :
                      /\ ~list[i].reasoning.none
                      /\ Len(list[i].reasoning.text) > 20}
        half == [i \in scored |-> HalfPointsOf[list[i].reasoning.text]]
    IN  IF scored = {}
        THEN NoneNumber
        ELSE Dec(Round2(SumOver(half, scored), 2 * Cardinality(scored)), 2)

Min(a, b) == IF a <= b THEN a ELSE b

\* int(x): the decimal x truncated toward zero
Truncated(x) ==
    IF x.n >= 0 THEN x.n \div Pow10(x.d) ELSE -((-x.n) \div Pow10(x.d))

\* bin_idx = min(int(conf * n_bins), n_bins - 1), without the clamp
BinIndex_unclamped(conf, n_bins) == Truncated(DecMul(conf, Dec(n_bins, 0)))

\* bin_idx = min(int(conf * n_bins), n_bins - 1)
BinIndex(conf, n_bins) ==
    Min(Truncated(DecMul(conf, Dec(n_bins, 0))), n_bins - 1)

\* indexing a Python list of length n: an index in -n..-1 counts from the
\* end, an index outside -n..n-1 raises IndexError
IndexInRange(idx, n) == -n <= idx /\ idx < n
ListSlot(idx, n) == IF idx < 0 THEN idx + n ELSE idx

\* a confidence that is kept only if it is truthy: 0.0 is dropped
HasConfidence_truthy(p) == Truthy(p.confidence)

\* p.confidence is not None
HasConfidence(p) == ~p.confidence.none

\* the calibration error without the division by the number of predictions
_compute_calibration_error_unnormalized(list, n_bins) ==
    LET with_conf == {i \in 1..Len(list) : HasConfidence(list[i])}
        scale == CHOOSE d \in 0..9 :
                    /\ \A i \in with_conf : list[i].confidence.d <= d
                    /\ \/ d = 0
                       \/ \E i \in with_conf : list[i].confidence.d = d
        idx == [i \in with_conf |-> BinIndex(list[i].confidence, n_bins)]
        in_bin == [b \in 0..(n_bins - 1) |->
                     {i \in with_conf : ListSlot(idx[i], n_bins) = b}]
        bin_correct == [b \in 0..(n_bins - 1) |->
                          Cardinality({i \in in_bin[b] : list[i].is_correct})]
        conf == [i \in with_conf |-> Scaled(list[i].confidence, scale)]
        gap == [b \in 0..(n_bins - 1) |->
                  LET d == bin_correct[b] * Pow10(scale) - SumOver(conf, in_bin[b])
                  IN  IF d < 0 THEN -d ELSE d]
    IN  IF with_conf = {}
        THEN Return(SomeRatio(0, 1))
        ELSE IF \E i \in with_conf : ~IndexInRange(idx[i], n_bins)
        THEN Raise("IndexError")
        ELSE Return(SomeRatio(SumOver(gap, 0..(n_bins - 1)), Pow10(scale)))

\* the expected calibration error over the predictions with a confidence:
\* (bin_count / total) * |bin_correct / bin_count - bin_conf_sum / bin_count|
\* summed over the non-empty bins, as an exact fraction
_compute_calibration_error(list, n_bins) ==
    LET with_conf == {i \in 1..Len(list) : HasConfidence(list[i])}
        scale == CHOOSE d \in 0..9 :
                    /\ \A i \in with_conf : list[i].confidence.d <= d
                    /\ \/ d = 0
                       \/ \E i \in with_conf : list[i].confidence.d = d
        idx == [i \in with_conf |-> BinIndex(list[i].confidence, n_bins)]
        in_bin == [b \in 0..(n_bins - 1) |->
                     {i \in with_conf : ListSlot(idx[i], n_bins) = b}]
        bin_correct == [b \in 0..(n_bins - 1) |->
                          Cardinality({i \in in_bin[b] : list[i].is_correct})]
        conf == [i \in with_conf |-> Scaled(list[i].confidence, scale)]
        gap == [b \in 0..(n_bins - 1) |->
                  LET d == bin_correct[b] * Pow10(scale) - SumOver(conf, in_bin[b])
                  IN  IF d < 0 THEN -d ELSE d]
    IN  IF with_conf = {}
        THEN Return(SomeRatio(0, 1))
        ELSE IF \E i \in with_conf : ~IndexInRange(idx[i], n_bins)
        THEN Raise("IndexError")
        ELSE Return(SomeRatio(SumOver(gap, 0..(n_bins - 1)),
                              Cardinality(with_conf) * Pow10(scale)))

CalibrationBins == 10

\* add_prediction that drops a numeric prediction holding no number
add_prediction_skip_malformed(problem_id, pred, ref, category, difficulty, reasoning, confidence, latency_ms, type, tol) ==
    LET graded == _check_correctness(pred, ref, type, tol)
        result == PredictionResult(problem_id, pred, ref, graded.value,
                                   category, difficulty, reasoning,
                                   confidence, latency_ms)
        malformed == type = "numeric" /\ _extract_number(pred).value.none
    IN  /\ Len(_predictions) < MaxPredictions
        /\ predicted' = pred
        /\ reference' = ref
        /\ answer_type' = type
        /\ tolerance' = tol
        /\ outcome' = graded
        /\ pc' = "done"
        /\ IF graded.raised = "" /\ ~malformed
           THEN /\ _predictions' = Append(_predictions, result)
                /\ results' = IF results.aliased
                              THEN [results EXCEPT !.predictions = _predictions']
                              ELSE results
           ELSE UNCHANGED <<_predictions, results>>
        /\ UNCHANGED <<batch, rubricVars, outerVars>>

\* the result object of compute() shares the list object self._predictions
\* unless the list was empty: an append is then visible through the result
add_prediction(problem_id, pred, ref, category, difficulty, reasoning, confidence, latency_ms, type, tol) ==
    LET graded == _check_correctness(pred, ref, type, tol)
        result == PredictionResult(problem_id, pred, ref, graded.value,
                                   category, difficulty, reasoning,
                                   confidence, latency_ms)
    IN  /\ Len(_predictions) < MaxPredictions
        /\ predicted' = pred
        /\ reference' = ref
        /\ answer_type' = type
        /\ tolerance' = tol
        /\ outcome' = graded
        /\ pc' = "done"
        /\ IF graded.raised = ""
           THEN /\ _predictions' = Append(_predictions, result)
                /\ results' = IF results.aliased
                              THEN [results EXCEPT !.predictions = _predictions']
                              ELSE results
           ELSE UNCHANGED <<_predictions, results>>
        /\ UNCHANGED <<batch, rubricVars, outerVars>>

\* compute() on a non-empty list: the counters, the ratios and the two
\* optional metrics; an exception of the calibration estimator propagates
Statistics(list) ==
    LET correct == CorrectCount(list)
        total == Len(list)
        cats == {list[i].category : i \in 1..total}
        diffs == {list[i].difficulty : i \in 1..total}
        calibration ==
            IF \E i \in 1..total : HasConfidence(list[i])
            THEN _compute_calibration_error(list, CalibrationBins)
            ELSE Return(NoneRatio)
    IN  IF calibration.raised # ""
        THEN [NoResults EXCEPT !.raised = calibration.raised]
        ELSE [computed |-> TRUE,
              total_examples |-> total,
              overall_accuracy |-> Ratio(correct, total),
              category_accuracy |->
                  [cat \in cats |->
                      Ratio(CategoryCorrect(list, cat), CategoryTotal(list, cat))],
              difficulty_accuracy |->
                  [diff \in diffs |->
                      Ratio(DifficultyCorrect(list, diff),
                            DifficultyTotal(list, diff))],
              reasoning_quality |-> _compute_reasoning_quality(list),
              calibration_error |-> calibration.value,
              correct_count |-> correct,
              predictions |-> list,
              aliased |-> TRUE,
              raised |-> ""]

\* what compute() returns for the list an aggregator holds
Computed(list) ==
    IF list = <<>>
    THEN [NoResults EXCEPT !.computed = TRUE]
    ELSE Statistics(list)

\* compute() without the test for an empty list: correct / total divides by 0
compute_without_empty_case ==
    /\ results' =
        IF _predictions = <<>>
        THEN [NoResults EXCEPT !.raised = "ZeroDivisionError"]
        ELSE Statistics(_predictions)
    /\ UNCHANGED <<gradeVars, _predictions, batch, rubricVars, outerVars>>

compute ==
    /\ results' = Computed(_predictions)
    /\ UNCHANGED <<gradeVars, _predictions, batch, rubricVars, outerVars>>

reset ==
    /\ _predictions' = <<>>
    /\ results' = [results EXCEPT !.aliased = FALSE]
    /\ UNCHANGED <<gradeVars, batch, rubricVars, outerVars>>

-----------------------------------------------------------------------------
(* The aggregator as a state machine *)

AddPrediction ==
    \E problem \in Problems :
        \E response \in ModelResponses(problem) :
            add_prediction(problem.id, response.answer, problem.correct_answer,
                           problem.category, problem.difficulty,
                           response.reasoning, response.confidence, NoneNumber,
                           problem.answer_type, problem.tolerance)

Init ==
    /\ predicted = ""
    /\ reference = ""
    /\ answer_type = "multiple_choice"
    /\ tolerance = NoTolerance
    /\ outcome = NotReturned
    /\ pc = "idle"
    /\ _predictions = <<>>
    /\ results = NoResults
    /\ batch = NoBatch
    /\ NoGrader
    /\ OuterIdle

Next == AddPrediction \/ compute \/ reset

Spec == Init /\ [][Next]_vars

-----------------------------------------------------------------------------
(* The grading function alone, over all the inputs *)

GradeInit ==
    /\ predicted \in Answers
    /\ reference \in Answers
    /\ answer_type \in AnswerTypes
    /\ tolerance \in Tolerances
    /\ outcome = NotReturned
    /\ pc = "call"
    /\ _predictions = <<>>
    /\ results = NoResults
    /\ batch = NoBatch
    /\ NoGrader
    /\ OuterIdle

Grade ==
    /\ pc = "call"
    /\ outcome' = _check_correctness(predicted, reference, answer_type, tolerance)
    /\ pc' = "done"
    /\ UNCHANGED <<predicted, reference, answer_type, tolerance,
                   _predictions, results, batch, rubricVars, outerVars>>

GradeNext == Grade

GradeSpec == GradeInit /\ [][GradeNext]_vars

-----------------------------------------------------------------------------
(* compute() alone, over the lists of predictions the aggregator can hold *)

MaxStored == 3

\* the record add_prediction stores for a response to a problem
Stored(problem, response) ==
    PredictionResult(problem.id, response.answer, problem.correct_answer,
                     _check_correctness(response.answer, problem.correct_answer,
                                        problem.answer_type,
                                        problem.tolerance).value,
                     problem.category, problem.difficulty,
                     response.reasoning, response.confidence, NoneNumber)

StoredPredictions ==
    UNION {{Stored(q, r) : r \in ModelResponses(q) \cup BoundaryResponses(q)} :
              q \in Problems}

ComputeInit ==
    /\ predicted = ""
    /\ reference = ""
    /\ answer_type = "multiple_choice"
    /\ tolerance = NoTolerance
    /\ outcome = NotReturned
    /\ pc = "idle"
    /\ _predictions \in UNION {[1..n -> StoredPredictions] : n \in 0..MaxStored}
    /\ results = NoResults
    /\ batch = NoBatch
    /\ NoGrader
    /\ OuterIdle

ComputeNext == compute

ComputeSpec == ComputeInit /\ [][ComputeNext]_vars

-----------------------------------------------------------------------------
(* The calibration estimator alone, over lists of (confidence, correctness) *)

MaxPairs == 2

\* the confidences a caller may pass: none, the edges and the inside of
\* [0, 1], and values outside of it, which add_prediction does not reject
Confidences ==
    {NoneNumber, Dec(0, 0), Dec(5, 2), Dec(95, 2), Dec(1, 0), Dec(15, 1),
     Dec(-5, 1), Dec(-15, 1)}

\* a correct and an incorrect answer to problem p1 with each confidence
CalibrationPredictions ==
    {Stored(q, ModelResponse(answer, NoReasoning, confidence)) :
        q \in {q \in Problems : q.id = "p1"},
        answer \in {"A", "B"},
        confidence \in Confidences}

CalibrationInit ==
    /\ predicted = ""
    /\ reference = ""
    /\ answer_type = "multiple_choice"
    /\ tolerance = NoTolerance
    /\ outcome = NotReturned
    /\ pc = "call"
    /\ _predictions
          \in UNION {[1..n -> CalibrationPredictions] : n \in 0..MaxPairs}
    /\ results = NoResults
    /\ batch = NoBatch
    /\ NoGrader
    /\ OuterIdle

Calibrate ==
    /\ pc = "call"
    /\ outcome' = _compute_calibration_error(_predictions, CalibrationBins)
    /\ pc' = "done"
    /\ UNCHANGED <<predicted, reference, answer_type, tolerance,
                   _predictions, results, batch, rubricVars, outerVars>>

CalibrationNext == Calibrate

CalibrationSpec == CalibrationInit /\ [][CalibrationNext]_vars

-----------------------------------------------------------------------------
(* add_batch and the evaluation runner, which record predictions from *)
(* problem records *)

MaxBatch == 2

\* the problem records, one of them declaring a tolerance
BatchProblems ==
    Problems \cup
        {Problem("p4", "dcf_sanity", "easy", "100", "numeric", Dec(5, 2))}

ProblemOf(id) == CHOOSE q \in BatchProblems : q.id = id

\* a reference record that revises the answer of p1
RevisedProblem == [ProblemOf("p1") EXCEPT !.correct_answer = "B"]

ReferenceRecords == BatchProblems \cup {RevisedProblem}

\* one response to each of three problems
BatchResponses(problem) ==
    IF problem.id = "p1"
    THEN {ModelResponse("A", NoReasoning, Dec(9, 1))}
    ELSE IF problem.id = "p2"
    THEN {ModelResponse("n/a", Reasoning("However, not enough data"),
                        NoneNumber)}
    ELSE IF problem.id = "p4"
    THEN {ModelResponse("103", NoReasoning, NoneNumber)}
    ELSE {}

\* a prediction dict of add_batch
Prediction(problem, response) ==
    [id |-> problem.id, predicted |-> response.answer,
     reasoning |-> response.reasoning, confidence |-> response.confidence,
     latency_ms |-> NoneNumber]

PredictionRecords ==
    UNION {{Prediction(q, r) : r \in BatchResponses(q)} : q \in BatchProblems}

\* the reference lists a batch is joined to: each lacks some of the
\* problems, and one has two records of the same id
ReferenceLists ==
    {<<ProblemOf("p1"), ProblemOf("p4")>>,
     <<ProblemOf("p2"), ProblemOf("p3"), ProblemOf("p4")>>,
     <<ProblemOf("p1"), RevisedProblem>>}

\* ref_map = {r['id']: r for r in references}: the last record of an id
HasReference(references, id) ==
    \E k \in 1..Len(references) : references[k].id = id

RefMapGet(references, id) ==
    references[CHOOSE k \in 1..Len(references) :
                  /\ references[k].id = id
                  /\ \A j \in (k + 1)..Len(references) : references[j].id # id]

\* the record that the add_prediction call of add_batch stores for a
\* prediction and its reference: no tolerance is passed, which is then None
BatchRecord ==
    [pred \in PredictionRecords, ref \in ReferenceRecords |->
        PredictionResult(
            pred.id, pred.predicted, ref.correct_answer,
            _check_correctness(pred.predicted, ref.correct_answer,
                               ref.answer_type, NoTolerance).value,
            ref.category, ref.difficulty, pred.reasoning,
            pred.confidence, pred.latency_ms)]

\* the loop of add_batch leaving at the first prediction without reference
RECURSIVE BatchRecords_break(_, _)
BatchRecords_break(predictions, references) ==
    IF predictions = <<>> \/ ~HasReference(references, Head(predictions).id)
    THEN <<>>
    ELSE LET pred == Head(predictions)
             ref == RefMapGet(references, pred.id)
         IN  <<BatchRecord[pred, ref]>>
             \o BatchRecords_break(Tail(predictions), references)

\* the records the loop of add_batch appends, in the order of the predictions
RECURSIVE BatchRecords(_, _)
BatchRecords(predictions, references) ==
    IF predictions = <<>> THEN <<>>
    ELSE IF ~HasReference(references, Head(predictions).id)
    THEN BatchRecords(Tail(predictions), references)
    ELSE LET pred == Head(predictions)
             ref == RefMapGet(references, pred.id)
         IN  <<BatchRecord[pred, ref]>>
             \o BatchRecords(Tail(predictions), references)

\* the arguments and the outcome of the last _check_correctness call of a
\* run that stored the records; type is the answer type it was given
LastGraded(records, type) ==
    IF records = <<>>
    THEN UNCHANGED gradeVars
    ELSE LET last == records[Len(records)]
         IN  /\ predicted' = last.predicted_answer
             /\ reference' = last.correct_answer
             /\ answer_type' = type
             /\ tolerance' = NoTolerance
             /\ outcome' = Return(last.is_correct)
             /\ pc' = "done"

add_batch(predictions, references) ==
    LET added == BatchRecords(predictions, references)
    IN  /\ Len(_predictions) + Len(predictions) <= MaxStored
        /\ _predictions' = _predictions \o added
        /\ LastGraded(added,
                      IF added = <<>> THEN ""
                      ELSE RefMapGet(references,
                                     added[Len(added)].problem_id).answer_type)
        /\ results' = IF results.aliased
                      THEN [results EXCEPT !.predictions = _predictions']
                      ELSE results
        /\ batch' = [called |-> TRUE, predictions |-> predictions,
                     references |-> references, before |-> _predictions]
        /\ UNCHANGED <<rubricVars, outerVars>>

\* FinancialReasoningExample: the dataset's view of a problem record, which
\* has no tolerance field
Example(problem) ==
    [id |-> problem.id, category |-> problem.category,
     difficulty |-> problem.difficulty, answer_type |-> problem.answer_type,
     correct_answer |-> problem.correct_answer]

\* the records the loop of run_benchmark stores: answers[i] is what the runner
\* generated for dataset[i]; neither a confidence nor a tolerance is passed
RunRecords(dataset, answers) ==
    [i \in 1..Len(dataset) |->
        PredictionResult(
            dataset[i].id, answers[i].answer, dataset[i].correct_answer,
            _check_correctness(answers[i].answer, dataset[i].correct_answer,
                               dataset[i].answer_type, NoTolerance).value,
            dataset[i].category, dataset[i].difficulty, answers[i].reasoning,
            NoneNumber, NoneNumber)]

\* run_benchmark on its own aggregator: one prediction per example, then
\* compute()
run_benchmark(dataset, answers) ==
    LET stored == RunRecords(dataset, answers)
    IN  /\ pc = "idle"
        /\ ~batch.called
        /\ _predictions = <<>>
        /\ _predictions' = stored
        /\ LastGraded(stored,
                      IF stored = <<>> THEN ""
                      ELSE dataset[Len(dataset)].answer_type)
        /\ results' = Computed(stored)
        /\ UNCHANGED <<batch, rubricVars, outerVars>>

\* add_batch is called on an aggregator of the caller; the aggregator of
\* run_benchmark is local to it
AddBatch ==
    /\ ~results.computed
    /\ \E n \in 0..MaxBatch :
          \E predictions \in [1..n -> PredictionRecords] :
              \E references \in ReferenceLists :
                  add_batch(predictions, references)

RunBenchmark ==
    \E n \in 0..MaxBatch :
        \E problems \in [1..n -> BatchProblems] :
            \E answers \in [1..n -> UNION {BatchResponses(q) : q \in BatchProblems}] :
                /\ \A i \in 1..n : answers[i] \in BatchResponses(problems[i])
                /\ run_benchmark([i \in 1..n |-> Example(problems[i])], answers)

BatchNext == AddBatch \/ RunBenchmark

BatchSpec == Init /\ [][BatchNext]_vars

-----------------------------------------------------------------------------
(* The rubric grader: RubricGrader (evaluation/rubric_scoring.py).  A dict *)
(* that is iterated is a sequence in insertion order; a criterion is kept  *)
(* without its description and tags, which scoring does not read.          *)

RubricCriterion(id, weight, category) ==
    [id |-> id, weight |-> weight, category |-> category]

DEFAULT_CRITERIA ==
    <<RubricCriterion("NA_001", 3, "numerical_accuracy"),
      RubricCriterion("NA_002", 2, "numerical_accuracy"),
      RubricCriterion("NA_003", 2, "numerical_accuracy"),
      RubricCriterion("NA_004", 2, "numerical_accuracy"),
      RubricCriterion("NA_005", 1, "numerical_accuracy"),
      RubricCriterion("CU_001", 3, "conceptual_understanding"),
      RubricCriterion("CU_002", 2, "conceptual_understanding"),
      RubricCriterion("CU_003", 2, "conceptual_understanding"),
      RubricCriterion("CU_004", 1, "conceptual_understanding"),
      RubricCriterion("RC_001", 3, "reasoning_chain"),
      RubricCriterion("RC_002", 2, "reasoning_chain"),
      RubricCriterion("RC_003", 2, "reasoning_chain"),
      RubricCriterion("RC_004", 2, "reasoning_chain"),
      RubricCriterion("RC_005", 1, "reasoning_chain"),
      RubricCriterion("FT_001", 2, "financial_terminology"),
      RubricCriterion("FT_002", 2, "financial_terminology"),
      RubricCriterion("FT_003", 1, "financial_terminology"),
      RubricCriterion("RA_001", 3, "risk_awareness"),
      RubricCriterion("RA_002", 2, "risk_awareness"),
      RubricCriterion("RA_003", 1, "risk_awareness"),
      RubricCriterion("RA_004", 1, "risk_awareness"),
      RubricCriterion("AI_001", 2, "assumption_identification"),
      RubricCriterion("AI_002", 2, "assumption_identification"),
      RubricCriterion("AI_003", 1, "assumption_identification"),
      RubricCriterion("CO_001", 3, "completeness"),
      RubricCriterion("CO_002", 2, "completeness"),
      RubricCriterion("CO_003", 1, "completeness")>>

\* the criteria argument left out
NoCriteria == [none |-> TRUE, list |-> <<>>]
SomeCriteria(list) == [none |-> FALSE, list |-> list]

\* criteria or DEFAULT_CRITERIA: None and the empty list give the defaults
CriteriaOrDefault(arg) ==
    IF arg.none \/ arg.list = <<>> THEN DEFAULT_CRITERIA ELSE arg.list

\* the loop of __init__: _by_category.setdefault(c.category, []).append(c)
RECURSIVE ByCategory(_, _)
ByCategory(groups, list) ==
    IF list = <<>> THEN groups
    ELSE LET c == Head(list)
             at == {k \in 1..Len(groups) : groups[k].category = c.category}
         IN  ByCategory(
                 IF at = {}
                 THEN Append(groups,
                             [category |-> c.category, criteria |-> <<c>>])
                 ELSE [groups EXCEPT
                          ![CHOOSE k \in at : TRUE].criteria = Append(@, c)],
                 Tail(list))

RECURSIVE total_possible(_)
total_possible(list) ==
    IF list = <<>> THEN 0 ELSE Head(list).weight + total_possible(Tail(list))

\* a criterion without a judgment taken as met
JudgmentOf_met_by_default(map, id) ==
    IF id \in DOMAIN map THEN map[id] ELSE TRUE

\* judgments.get(c.id, False)
JudgmentOf(map, id) == IF id \in DOMAIN map THEN map[id] ELSE FALSE

\* RubricCriterion.score
CriterionScore(c, met) == IF met THEN c.weight ELSE 0

\* results[c.id] = met
Put(map, id, met) ==
    [k \in DOMAIN map \cup {id} |-> IF k = id THEN met ELSE map[k]]

NoScore == [earned |-> 0, possible |-> 0, results |-> <<>>]

\* the inner loop with only the weights of the criteria that are met
\* counted as possible
RECURSIVE ScoreCriteria_met_only(_, _, _)
ScoreCriteria_met_only(acc, list, map) ==
    IF list = <<>> THEN acc
    ELSE LET c == Head(list)
             met == JudgmentOf(map, c.id)
         IN  ScoreCriteria_met_only(
                 [earned |-> acc.earned + CriterionScore(c, met),
                  possible |-> acc.possible + CriterionScore(c, met),
                  results |-> Put(acc.results, c.id, met)],
                 Tail(list), map)

\* the inner loop of score over the criteria of one category
RECURSIVE ScoreCriteria(_, _, _)
ScoreCriteria(acc, list, map) ==
    IF list = <<>> THEN acc
    ELSE LET c == Head(list)
             met == JudgmentOf(map, c.id)
         IN  ScoreCriteria(
                 [earned |-> acc.earned + CriterionScore(c, met),
                  possible |-> acc.possible + c.weight,
                  results |-> Put(acc.results, c.id, met)],
                 Tail(list), map)

CategoryScore(category, earned, possible, criteria_results) ==
    [category |-> category, earned |-> earned, possible |-> possible,
     criteria_results |-> criteria_results]

RECURSIVE SumEarned(_)
SumEarned(scores) ==
    IF scores = <<>> THEN 0 ELSE Head(scores).earned + SumEarned(Tail(scores))

RECURSIVE SumPossible(_)
SumPossible(scores) ==
    IF scores = <<>> THEN 0
    ELSE Head(scores).possible + SumPossible(Tail(scores))

RubricResult(category_scores, overall_earned, overall_possible) ==
    [category_scores |-> category_scores, overall_earned |-> overall_earned,
     overall_possible |-> overall_possible]

score(by_category, map) ==
    LET cat_scores ==
            [k \in 1..Len(by_category) |->
                LET sums == ScoreCriteria(NoScore, by_category[k].criteria, map)
                IN  CategoryScore(by_category[k].category, sums.earned,
                                  sums.possible, sums.results)]
    IN  RubricResult(cat_scores, SumEarned(cat_scores),
                     SumPossible(cat_scores))

\* CategoryScore.pct, an exact fraction
pct(cs) ==
    IF cs.possible > 0 THEN Ratio(cs.earned * 100, cs.possible)
    ELSE Ratio(0, 1)

\* the overall percentage without the factor 100
overall_pct_unscaled(result) ==
    IF result.overall_possible > 0
    THEN Ratio(result.overall_earned, result.overall_possible)
    ELSE Ratio(0, 1)

\* RubricResult.overall_pct
overall_pct(result) ==
    IF result.overall_possible > 0
    THEN Ratio(result.overall_earned * 100, result.overall_possible)
    ELSE Ratio(0, 1)

-----------------------------------------------------------------------------
(* The rubric grader as a state machine: a grader is constructed from a *)
(* list of criteria, or from none, and score is called on it            *)

MaxCriteria == 2

\* criteria of two ids and two categories; the weights are the ones of the
\* custom criteria of the tests, 0, and a negative one, which the constructor
\* does not reject
CriterionPool ==
    {RubricCriterion(id, weight, category) :
        id \in {"C1", "C2"}, weight \in {0, 3, 5}, category \in {"test", "other"}}
    \cup {RubricCriterion("C2", -3, "other")}

CriteriaArguments ==
    {NoCriteria}
    \cup {SomeCriteria(list) :
            list \in UNION {[1..n -> CriterionPool] : n \in 0..MaxCriteria}}

DefaultIds == {DEFAULT_CRITERIA[i].id : i \in 1..Len(DEFAULT_CRITERIA)}

\* judgments of none, some or all of the ids, of an id no criterion has, and
\* of every default criterion
JudgmentMaps ==
    UNION {[ids -> BOOLEAN] : ids \in SUBSET {"C1", "C2"}}
    \cup {[id \in {"NA_001", "ZZ_999"} |-> TRUE],
          [id \in DefaultIds |-> TRUE],
          [id \in DefaultIds |-> id \in {"NA_001", "CO_003"}]}

RubricInit ==
    /\ predicted = ""
    /\ reference = ""
    /\ answer_type = "multiple_choice"
    /\ tolerance = NoTolerance
    /\ outcome = NotReturned
    /\ pc = "idle"
    /\ _predictions = <<>>
    /\ results = NoResults
    /\ batch = NoBatch
    /\ \E arg \in CriteriaArguments :
          /\ construction = [via |-> "__init__", argument |-> arg,
                             raised |-> ""]
          /\ criteria = CriteriaOrDefault(arg)
          /\ _by_category = ByCategory(<<>>, CriteriaOrDefault(arg))
    /\ judgments = <<>>
    /\ rubric = [raised |-> "pending", value |-> FALSE]
    /\ OuterIdle

Score ==
    \E map \in JudgmentMaps :
        /\ judgments' = map
        /\ rubric' = Return(score(_by_category, map))
        /\ UNCHANGED <<gradeVars, _predictions, results, batch, criteria,
                       _by_category, construction, outerVars>>

RubricNext == Score

RubricSpec == RubricInit /\ [][RubricNext]_vars

-----------------------------------------------------------------------------
(* RubricGrader.from_yaml: the grader loaded from an external definition. *)
(* A value of the parsed document is [type, value] with the type YAML     *)
(* gave it, "absent" for a key that is not there; of a weight that is not *)
(* an integer only the type is kept.  The fields of a loaded criterion    *)
(* are the values of the definition, of whatever type they are.           *)

MaxItems == 2

\* the parsed documents: an empty file, a mapping without categories, and
\* mappings of one or two categories whose criteria have or lack an id and a
\* description and give a weight of any kind or none
YamlDocuments ==
    LET Absent == [type |-> "absent", value |-> ""]
        Str(s) == [type |-> "str", value |-> s]
        Whole(n) == [type |-> "int", value |-> n]
        weights == {[type |-> "absent", value |-> 0], Whole(2), Whole(0), Whole(-3),
                    [type |-> "float", value |-> 0],
                    [type |-> "str", value |-> 0],
                    [type |-> "null", value |-> 0]}
        items == {[id |-> id, description |-> description, weight |-> weight,
                   category |-> category] :
                     id \in {Absent, Str("C1")},
                     description \in {Absent, Str("d")},
                     weight \in weights,
                     category \in {Str("test")}}
                 \cup {[id |-> Str("C2"), description |-> Str("d"),
                        weight |-> Whole(1), category |-> Absent]}
        lists == UNION {[1..n -> items] : n \in 0..MaxItems}
    IN  {[type |-> "null", categories |-> <<>>],
         [type |-> "map", categories |-> <<>>]}
        \cup {[type |-> "map", categories |-> <<list>>] : list \in lists}
        \cup {[type |-> "map", categories |-> <<<<a>>, <<b>>>>] :
                 a \in items, b \in items}

\* the criteria from_yaml collects, or the exception that ends it
from_yaml(data) ==
    LET blocks == data.categories
        RECURSIVE From(_)
        From(k) == IF k > Len(blocks) THEN <<>> ELSE blocks[k] \o From(k + 1)
        crits == From(1)
        Loaded(crit) ==
            [id |-> crit.id,
             description |-> crit.description,
             weight |-> IF crit.weight.type = "absent"
                        THEN [type |-> "int", value |-> 1] ELSE crit.weight,
             category |-> IF crit.category.type = "absent"
                          THEN [type |-> "str", value |-> ""]
                          ELSE crit.category]
    IN  IF data.type = "null" THEN Raise("AttributeError")
        ELSE IF \E i \in 1..Len(crits) :
                    \/ crits[i].id.type = "absent"
                    \/ crits[i].description.type = "absent"
        THEN Raise("KeyError")
        ELSE Return([i \in 1..Len(crits) |-> Loaded(crits[i])])

\* the one construction of a grader, by from_yaml
FromYaml ==
    \E data \in YamlDocuments :
        LET collected == from_yaml(data)
            held == IF collected.value = <<>> THEN DEFAULT_CRITERIA
                    ELSE collected.value
        IN  /\ construction.via = ""
            /\ construction' = [via |-> "from_yaml", argument |-> data,
                                raised |-> collected.raised]
            /\ criteria' = IF collected.raised = "" THEN held ELSE <<>>
            /\ _by_category' = IF collected.raised = "" THEN ByCategory(<<>>, held)
                               ELSE <<>>
            /\ judgments' = <<>>
            /\ rubric' = [raised |-> "pending", value |-> FALSE]
            /\ UNCHANGED <<gradeVars, _predictions, results, batch, outerVars>>

LoadSpec == Init /\ [][FromYaml]_vars

-----------------------------------------------------------------------------
(* Taxonomy coverage: analyze_coverage (evaluation/flame_alignment.py). *)
(* A dict with string keys is a record.                                  *)

FLAME_CATEGORIES ==
    <<"question_answering", "information_retrieval", "summarization",
      "sentiment_analysis", "causal_reasoning", "classification">>

\* the keys of FINRATE_QA_PATHWAYS
FINRATE_QA_PATHWAYS ==
    <<"detail_oriented_qa", "cross_entity_qa", "longitudinal_qa">>

CATEGORY_TO_FLAME ==
    [earnings_surprise |-> <<"question_answering", "classification">>,
     dcf_sanity_check |-> <<"question_answering", "causal_reasoning">>,
     accounting_red_flag |-> <<"classification", "information_retrieval">>,
     catalyst_identification |-> <<"information_retrieval", "causal_reasoning">>,
     formula_audit |-> <<"question_answering">>,
     financial_statement_analysis |->
         <<"question_answering", "information_retrieval">>,
     valuation_analysis |-> <<"question_answering", "causal_reasoning">>,
     risk_assessment |-> <<"causal_reasoning", "classification">>,
     cross_entity_qa |->
         <<"question_answering", "information_retrieval", "classification">>,
     longitudinal_qa |->
         <<"question_answering", "causal_reasoning", "summarization">>]

\* the pathway table without its last entry
CATEGORY_TO_FINRATE_without_longitudinal ==
    [earnings_surprise |-> "detail_oriented_qa",
     dcf_sanity_check |-> "detail_oriented_qa",
     accounting_red_flag |-> "detail_oriented_qa",
     catalyst_identification |-> "detail_oriented_qa",
     formula_audit |-> "detail_oriented_qa",
     financial_statement_analysis |-> "detail_oriented_qa",
     valuation_analysis |-> "detail_oriented_qa",
     risk_assessment |-> "detail_oriented_qa",
     cross_entity_qa |-> "cross_entity_qa"]

CATEGORY_TO_FINRATE ==
    [earnings_surprise |-> "detail_oriented_qa",
     dcf_sanity_check |-> "detail_oriented_qa",
     accounting_red_flag |-> "detail_oriented_qa",
     catalyst_identification |-> "detail_oriented_qa",
     formula_audit |-> "detail_oriented_qa",
     financial_statement_analysis |-> "detail_oriented_qa",
     valuation_analysis |-> "detail_oriented_qa",
     risk_assessment |-> "detail_oriented_qa",
     cross_entity_qa |-> "cross_entity_qa",
     longitudinal_qa |-> "longitudinal_qa"]

analyze_coverage(problem_categories) ==
    LET RECURSIVE Loop(_, _)
        Loop(result, rest) ==
            IF rest = <<>> THEN result
            ELSE LET cat == Head(rest)
                     flame_cats == IF cat \in DOMAIN CATEGORY_TO_FLAME
                                   THEN CATEGORY_TO_FLAME[cat] ELSE <<>>
                     finrate_path == IF cat \in DOMAIN CATEGORY_TO_FINRATE
                                     THEN CATEGORY_TO_FINRATE[cat] ELSE ""
                 IN  IF flame_cats = <<>>
                     THEN Loop([result EXCEPT !.unmapped = @ + 1], Tail(rest))
                     ELSE Loop(
                         [result EXCEPT
                             !.flame_coverage =
                                 [fc \in DOMAIN @ |->
                                     @[fc] + Cardinality(
                                         {k \in 1..Len(flame_cats) :
                                             flame_cats[k] = fc})],
                             !.finrate_coverage =
                                 [fp \in DOMAIN @ |->
                                     IF finrate_path # "" /\ fp = finrate_path
                                     THEN @[fp] + 1 ELSE @[fp]]],
                         Tail(rest))
    IN  Loop([flame_coverage |->
                  [fc \in {FLAME_CATEGORIES[k] : k \in 1..Len(FLAME_CATEGORIES)}
                      |-> 0],
              finrate_coverage |->
                  [fp \in {FINRATE_QA_PATHWAYS[k] :
                              k \in 1..Len(FINRATE_QA_PATHWAYS)} |-> 0],
              total_problems |-> Len(problem_categories),
              unmapped |-> 0],
             problem_categories)

MaxCategories == 3

\* one call, on a list of categories of the tables and of a category that is
\* in none of them
AnalyzeCoverage ==
    \E n \in 0..MaxCategories :
        \E problem_categories
              \in [1..n -> DOMAIN CATEGORY_TO_FLAME \cup {"nonexistent_category"}] :
            /\ ~coverage.called
            /\ coverage' = [called |-> TRUE,
                            problem_categories |-> problem_categories,
                            result |-> analyze_coverage(problem_categories)]
            /\ UNCHANGED <<gradeVars, _predictions, results, batch, rubricVars,
                           boardVars, retryVars>>

CoverageSpec == Init /\ [][AnalyzeCoverage]_vars

-----------------------------------------------------------------------------
(* The leaderboard: Leaderboard (leaderboard/leaderboard.py).  An entry is *)
(* kept with the fields that ranking reads and writes.                     *)

LeaderboardEntry(model_name, model_version, overall_accuracy) ==
    [model_name |-> model_name, model_version |-> model_version,
     overall_accuracy |-> overall_accuracy, rank |-> 0]

\* where list.sort(key = overall_accuracy, reverse = True) puts the entry at
\* index i: after the entries of greater accuracy and after the earlier
\* entries of equal accuracy (the sort is stable)
PlaceAfterSort(list, i) ==
    1 + Cardinality({j \in 1..Len(list) :
            \/ DecLess(list[i].overall_accuracy, list[j].overall_accuracy)
            \/ /\ j < i
               /\ ~DecLess(list[j].overall_accuracy, list[i].overall_accuracy)})

\* the ranks given in the order the entries came in, unsorted
_update_ranks_unsorted(list) ==
    [k \in 1..Len(list) |-> [list[k] EXCEPT !.rank = k]]

_update_ranks(list) ==
    [k \in 1..Len(list) |->
        LET i == CHOOSE i \in 1..Len(list) : PlaceAfterSort(list, i) = k
        IN  [list[i] EXCEPT !.rank = k]]

\* add_entry replacing the stored entry of the model whatever its accuracy
add_entry_always_replacing(entry) ==
    LET found == {i \in 1..Len(entries) :
                     /\ entries[i].model_name = entry.model_name
                     /\ entries[i].model_version = entry.model_version}
        existing_idx == IF found = {} THEN 0
                        ELSE CHOOSE i \in found : \A j \in found : i <= j
        list == IF existing_idx = 0 THEN Append(entries, entry)
                ELSE [entries EXCEPT ![existing_idx] = entry]
        at == IF existing_idx = 0 THEN Len(list) ELSE existing_idx
    IN  /\ entries' = _update_ranks(list)
        /\ storage' = [exists |-> TRUE, entries |-> _update_ranks(list)]
        /\ last_add' = [called |-> TRUE, entry |-> entry, before |-> entries,
                        returned |-> PlaceAfterSort(list, at)]

\* the entry object is in the list, and so is ranked, only when it was
\* appended or put in the place of the stored one; otherwise it keeps the
\* rank it came with
add_entry(entry) ==
    LET found == {i \in 1..Len(entries) :
                     /\ entries[i].model_name = entry.model_name
                     /\ entries[i].model_version = entry.model_version}
        existing_idx == IF found = {} THEN 0
                        ELSE CHOOSE i \in found : \A j \in found : i <= j
        better == existing_idx # 0
                  /\ DecLess(entries[existing_idx].overall_accuracy,
                             entry.overall_accuracy)
        list == IF existing_idx = 0 THEN Append(entries, entry)
                ELSE IF better THEN [entries EXCEPT ![existing_idx] = entry]
                ELSE entries
        at == IF existing_idx = 0 THEN Len(list) ELSE existing_idx
    IN  /\ entries' = _update_ranks(list)
        /\ storage' = [exists |-> TRUE, entries |-> _update_ranks(list)]
        /\ last_add' = [called |-> TRUE, entry |-> entry, before |-> entries,
                        returned |-> IF existing_idx = 0 \/ better
                                     THEN PlaceAfterSort(list, at)
                                     ELSE entry.rank]

\* a submission of one of two models, one of them in two versions, with
\* one of three accuracies
AddEntry ==
    \E model \in {<<"TestModel1", "None">>, <<"TestModel2", "None">>,
                  <<"TestModel2", "v2">>} :
        \E overall_accuracy \in {Dec(80, 2), Dec(85, 2), Dec(9, 1)} :
            /\ add_entry(LeaderboardEntry(model[1], model[2], overall_accuracy))
            /\ UNCHANGED <<gradeVars, _predictions, results, batch, rubricVars,
                           coverage, retryVars>>

BoardSpec == Init /\ [][AddEntry]_vars

-----------------------------------------------------------------------------
(* The retry loop of the runner: BaseRunner._generate_with_retry           *)
(* (runners/base.py).  generate is abstract: a call of it returns some     *)
(* response, raises some Exception, or raises outside of Exception (a      *)
(* KeyboardInterrupt).  A response is kept with its answer, error and      *)
(* success; the error text "Failed after N attempts: E" is the pair N, E.  *)

MaxRetries == 3

\* every failed attempt followed by a sleep
SleepsAfter_every_failure(tried, max_retries) == tried < max_retries

\* if attempt < self.config.max_retries - 1
SleepsAfter(tried, max_retries) == tried < max_retries - 1

\* a runner with some configuration is asked for one response
Call ==
    /\ retry_pc = "idle"
    /\ \E max_retries \in 0..MaxRetries : \E retry_delay \in {-1, 0, 1, 2} :
          config' = [model_name |-> "model", max_retries |-> max_retries,
                     retry_delay |-> retry_delay]
    /\ attempt' = 0
    /\ last_error' = "None"
    /\ retry_pc' = "loop"
    /\ UNCHANGED <<gradeVars, _predictions, results, batch, rubricVars,
                   coverage, boardVars, generated, slept, retry_result>>

\* one pass of the loop up to the sleep, or the return after the loop
Attempt ==
    /\ retry_pc = "loop"
    /\ IF attempt < config.max_retries
       THEN \E kind \in {"return", "Exception", "BaseException"} :
               \E text \in {"A", "timeout"} :
                   /\ generated' = Append(generated, [kind |-> kind, text |-> text])
                   /\ IF kind = "return"
                      THEN /\ retry_result'
                                 = Return([answer |-> text, success |-> text = "A",
                                           error |-> [none |-> TRUE, attempts |-> 0,
                                                      last_error |-> ""]])
                           /\ retry_pc' = "done"
                           /\ UNCHANGED <<attempt, last_error>>
                      ELSE IF kind = "BaseException"
                      THEN /\ retry_result' = Raise("KeyboardInterrupt")
                           /\ retry_pc' = "done"
                           /\ UNCHANGED <<attempt, last_error>>
                      ELSE /\ last_error' = text
                           /\ IF SleepsAfter(attempt, config.max_retries)
                              THEN retry_pc' = "sleep" /\ attempt' = attempt
                              ELSE retry_pc' = "loop" /\ attempt' = attempt + 1
                           /\ UNCHANGED retry_result
       ELSE /\ retry_result'
                  = Return([answer |-> "", success |-> FALSE,
                            error |-> [none |-> FALSE,
                                       attempts |-> config.max_retries,
                                       last_error |-> last_error]])
            /\ retry_pc' = "done"
            /\ UNCHANGED <<attempt, last_error, generated>>
    /\ UNCHANGED <<gradeVars, _predictions, results, batch, rubricVars,
                   coverage, boardVars, config, slept>>

\* time.sleep(retry_delay * (attempt + 1)), which raises ValueError for a
\* negative length, and the next pass
Sleep ==
    /\ retry_pc = "sleep"
    /\ slept' = Append(slept, config.retry_delay * (attempt + 1))
    /\ IF config.retry_delay * (attempt + 1) < 0
       THEN /\ retry_result' = Raise("ValueError")
            /\ retry_pc' = "done"
            /\ UNCHANGED attempt
       ELSE /\ attempt' = attempt + 1
            /\ retry_pc' = "loop"
            /\ UNCHANGED retry_result
    /\ UNCHANGED <<gradeVars, _predictions, results, batch, rubricVars,
                   coverage, boardVars, config, last_error, generated>>

\* a call that was made runs on: generate and time.sleep return or raise
RetrySpec ==
    Init /\ [][Call \/ Attempt \/ Sleep]_vars /\ WF_vars(Attempt \/ Sleep)

-----------------------------------------------------------------------------
(* Properties of the grading function (GradeSpec) *)

Graded == pc = "done"
TextType == answer_type \notin {"numeric", "boolean"}

\* C1: for the text / multiple-choice type the grade is true exactly when
\* the normalized strings are equal, or the normalized reference is contained
\* in the normalized prediction, or an option letter is extracted from both
\* strings and the two letters are equal; otherwise it is false.
C1_TextDecisionList ==
    (Graded /\ TextType) =>
        LET p == _normalize_answer(predicted)
            r == _normalize_answer(reference)
            pl == _extract_option_letter(predicted)
            rl == _extract_option_letter(reference)
        IN  /\ outcome.raised = ""
            /\ outcome.value <=>
                  \/ p = r
                  \/ \E i \in 1..(Len(p) - Len(r) + 1) :
                        \A k \in 1..Len(r) : p[i + k - 1] = r[k]
                  \/ pl \in {"A", "B", "C", "D"} /\ pl = rl

\* reached: a grade decided by the option letters alone
C1_Witness ==
    /\ Graded /\ TextType /\ outcome.value
    /\ predicted = "b" /\ reference = "The answer is: B."

\* C2: for the numeric type, with numbers p and r # 0 extracted, the grade is
\* true iff |p - r| / |r| <= tolerance, the tolerance being 0.01 when none is
\* supplied.
C2_RelativeTolerance ==
    LET p == _extract_number(predicted).value
        r == _extract_number(reference).value
        tol == IF tolerance.none THEN Dec(1, 2) ELSE tolerance
    IN  (Graded /\ answer_type = "numeric" /\ ~p.none /\ ~r.none /\ r.n # 0) =>
            (outcome.value <=>
                DecLessEq(DecAbs(DecSub(p, r)), DecMul(tol, DecAbs(r))))

\* C3: for the numeric type with a reference of value 0 and a supplied
\* tolerance tol >= 0, the grade is true iff |p| < tol.
C3_ZeroReference ==
    LET p == _extract_number(predicted).value
        r == _extract_number(reference).value
    IN  (Graded /\ answer_type = "numeric" /\ ~p.none /\ ~r.none /\ r.n = 0
         /\ ~tolerance.none /\ tolerance.n >= 0) =>
            (outcome.value <=> DecLess(DecAbs(p), tolerance))

\* the prediction and the reference as the boolean grader reads them
BooleanText(s) == StripChars(Lower(Chars(s)), Whitespace)

\* C4: for the boolean type a prediction in neither vocabulary is graded
\* incorrect whatever the reference.
C4_AmbiguousBoolean ==
    (Graded /\ answer_type = "boolean"
     /\ BooleanText(predicted) \notin true_values \cup false_values) =>
        outcome = Return(FALSE)

C4_Witness ==
    /\ Graded /\ answer_type = "boolean"
    /\ predicted = "maybe" /\ reference = "false"
    /\ outcome = Return(FALSE)

\* C5: for the boolean type a prediction in one of the vocabularies is graded
\* correct iff the reference is in the same vocabulary; a reference in
\* neither is matched by no prediction.
C5_SameVocabulary ==
    LET p == BooleanText(predicted)
        r == BooleanText(reference)
    IN  (Graded /\ answer_type = "boolean"
         /\ p \in true_values \cup false_values) =>
            (outcome.value <=>
                \/ p \in true_values /\ r \in true_values
                \/ p \in false_values /\ r \in false_values)

\* C6: the notations +$38M, $+38M and $38M normalize to one string, and so do
\* -$38M and $-38M; two notations of the same sign are graded correct
\* against each other in either role.
C6_SignCurrencyCanonical ==
    LET positive == {"+$38M", "$+38M", "$38M"}
        negative == {"-$38M", "$-38M"}
    IN  (Graded /\ TextType
         /\ \/ predicted \in positive /\ reference \in positive
            \/ predicted \in negative /\ reference \in negative) =>
            /\ _normalize_answer(predicted) = _normalize_answer(reference)
            /\ outcome = Return(TRUE)

\* C7: for the text / multiple-choice type, when an option letter is
\* extracted from each string and the letters differ, the grade is false.
C7_DifferentOptionsIncorrect ==
    LET pl == _extract_option_letter(predicted)
        rl == _extract_option_letter(reference)
    IN  (Graded /\ TextType /\ pl # "None" /\ rl # "None" /\ pl # rl) =>
            outcome = Return(FALSE)

\* C8: an empty or whitespace-only prediction is graded incorrect for every
\* answer type and every reference, and nothing is raised.
C8_EmptyPredictionIncorrect ==
    (Graded /\ \A i \in 1..Len(predicted) : Chars(predicted)[i] \in Whitespace) =>
        outcome = Return(FALSE)

\* no digit occurs in the text, so no number can be extracted from it
NoNumber(s) == \A i \in 1..Len(s) : Chars(s)[i] \notin Digits

\* C9: the grading function is total: it returns a boolean and raises
\* nothing; for the numeric type it returns false when no number can be
\* extracted from the prediction or from the reference.
C9_Total ==
    Graded =>
        /\ outcome.raised = ""
        /\ outcome.value \in BOOLEAN
        /\ (answer_type = "numeric" /\ (NoNumber(predicted) \/ NoNumber(reference)))
               => outcome.value = FALSE

C9_Witness ==
    /\ Graded /\ answer_type = "numeric"
    /\ NoNumber(predicted) /\ ~NoNumber(reference)
    /\ outcome = Return(FALSE)

-----------------------------------------------------------------------------
(* Properties of the aggregator (Spec) *)

\* a numeric-type prediction holding no number
Malformed(type, pred) == type = "numeric" /\ NoNumber(pred)

C12_EmptyResult ==
    [][(_predictions = <<>> /\ compute) =>
          /\ results'.raised = ""
          /\ results'.computed
          /\ results'.total_examples = 0
          /\ results'.overall_accuracy.num = 0
          /\ results'.overall_accuracy.den # 0
          /\ results'.correct_count = 0
          /\ DOMAIN results'.category_accuracy = {}
          /\ DOMAIN results'.difficulty_accuracy = {}
          /\ results'.reasoning_quality.none
          /\ results'.calibration_error.none
          /\ results'.predictions = <<>>
      ]_vars

\* reached: the empty result, computed once predictions were added and the
\* aggregator was reset
C12_Witness ==
    /\ pc = "done"
    /\ _predictions = <<>>
    /\ results.computed
    /\ results.raised = ""
    /\ results.total_examples = 0
    /\ results.calibration_error.none
    /\ results.reasoning_quality.none

\* C28: a result returned by compute() is a snapshot: its predictions list
\* has exactly total_examples elements, and no later add_prediction or
\* reset on the aggregator changes the list or any other field of it.
C28_Snapshot ==
    /\ [](results.computed
             => Len(results.predictions) = results.total_examples)
    /\ [][(results.computed /\ (AddPrediction \/ reset))
             => [results' EXCEPT !.aliased = FALSE]
                   = [results EXCEPT !.aliased = FALSE]]_vars

-----------------------------------------------------------------------------
(* Properties of compute() (ComputeSpec) *)

\* C11: in every result of compute() on a non-empty aggregator,
\* total_examples is the number of stored predictions, overall_accuracy is
\* correct_count / total_examples, the keys of category_accuracy
\* (difficulty_accuracy) are exactly the categories (difficulties) of the
\* stored predictions, each value is (correct predictions of the key) /
\* (predictions of the key), no denominator is zero and every value lies in
\* [0, 1].
C11_SliceRatios ==
    (results.computed /\ _predictions # <<>>) =>
        LET stored == 1..Len(_predictions)
            right == {i \in stored : _predictions[i].is_correct}
            cats == {_predictions[i].category : i \in stored}
            diffs == {_predictions[i].difficulty : i \in stored}
            InCat(k) == {i \in stored : _predictions[i].category = k}
            InDiff(k) == {i \in stored : _predictions[i].difficulty = k}
            UnitRatio(v) == v.den > 0 /\ 0 <= v.num /\ v.num <= v.den
        IN  /\ results.total_examples = Len(_predictions)
            /\ results.correct_count = Cardinality(right)
            /\ results.overall_accuracy
                  = Ratio(results.correct_count, results.total_examples)
            /\ UnitRatio(results.overall_accuracy)
            /\ DOMAIN results.category_accuracy = cats
            /\ DOMAIN results.difficulty_accuracy = diffs
            /\ \A k \in cats :
                  /\ results.category_accuracy[k]
                        = Ratio(Cardinality(InCat(k) \cap right),
                                Cardinality(InCat(k)))
                  /\ UnitRatio(results.category_accuracy[k])
            /\ \A k \in diffs :
                  /\ results.difficulty_accuracy[k]
                        = Ratio(Cardinality(InDiff(k) \cap right),
                                Cardinality(InDiff(k)))
                  /\ UnitRatio(results.difficulty_accuracy[k])

\* reached: a result with two categories of different accuracy, one of them
\* holding a correct and an incorrect prediction
C11_Witness ==
    /\ results.computed
    /\ Len(_predictions) = 3
    /\ DOMAIN results.category_accuracy = {"earnings_surprise", "dcf_sanity"}
    /\ results.category_accuracy["earnings_surprise"] = Ratio(1, 2)
    /\ results.category_accuracy["dcf_sanity"] = Ratio(0, 1)
    /\ results.overall_accuracy = Ratio(1, 3)

\* the stored predictions in the order perm, and those at the indices of a
\* set, in their stored order
Reordered(perm) == [i \in 1..Len(_predictions) |-> _predictions[perm[i]]]
Part(indices) ==
    [i \in 1..Cardinality(indices) |->
        _predictions[CHOOSE j \in indices :
                        Cardinality({m \in indices : m < j}) = i - 1]]

\* the per-slice correct and total counts of two results, summed
MergedSlices(a, b) ==
    [k \in DOMAIN a \cup DOMAIN b |->
        Ratio((IF k \in DOMAIN a THEN a[k].num ELSE 0)
                 + (IF k \in DOMAIN b THEN b[k].num ELSE 0),
              (IF k \in DOMAIN a THEN a[k].den ELSE 0)
                 + (IF k \in DOMAIN b THEN b[k].den ELSE 0))]

\* C15: the accuracy statistics depend only on the multiset of predictions:
\* an aggregator holding the stored predictions in any other order returns
\* the same total_examples, correct_count, overall_accuracy,
\* category_accuracy and difficulty_accuracy, and for every split of the
\* predictions over two aggregators the sums of their counts, overall and
\* per category and per difficulty, are these same statistics.
C15_OrderAndPartition ==
    (results.computed /\ results.raised = "") =>
        LET stored == 1..Len(_predictions)
        IN  /\ \A perm \in Permutations(stored) :
                  LET r == Computed(Reordered(perm))
                  IN  /\ r.raised = ""
                      /\ r.total_examples = results.total_examples
                      /\ r.correct_count = results.correct_count
                      /\ r.overall_accuracy = results.overall_accuracy
                      /\ r.category_accuracy = results.category_accuracy
                      /\ r.difficulty_accuracy = results.difficulty_accuracy
            /\ \A indices \in SUBSET stored :
                  LET a == Computed(Part(indices))
                      b == Computed(Part(stored \ indices))
                      total == a.total_examples + b.total_examples
                      correct == a.correct_count + b.correct_count
                  IN  /\ a.raised = "" /\ b.raised = ""
                      /\ total = results.total_examples
                      /\ correct = results.correct_count
                      /\ total > 0 =>
                             results.overall_accuracy = Ratio(correct, total)
                      /\ MergedSlices(a.category_accuracy,
                                      b.category_accuracy)
                            = results.category_accuracy
                      /\ MergedSlices(a.difficulty_accuracy,
                                      b.difficulty_accuracy)
                            = results.difficulty_accuracy

\* C16: compute() reports no calibration error exactly when no stored
\* prediction carries a confidence, a confidence of 0.0 being carried; when
\* some do, the value is the expected calibration error of the predictions
\* that carry one: with N of them, the sum over the ten bins of
\* |correct predictions of the bin - sum of the confidences of the bin|,
\* divided by N; a prediction without confidence is in no bin and not in N.
C16_CalibrationPresence ==
    (results.computed /\ results.raised = "") =>
        LET carrying == {i \in 1..Len(_predictions) :
                            ~_predictions[i].confidence.none}
            Hundredths(i) == Scaled(_predictions[i].confidence, 2)
            BinOf(i) == IF Hundredths(i) >= 100 THEN 9
                        ELSE Hundredths(i) \div 10
            InBin(b) == {i \in carrying : BinOf(i) = b}
            gap == [b \in 0..9 |->
                      LET hits == Cardinality({i \in InBin(b) :
                                                 _predictions[i].is_correct})
                          conf == [i \in InBin(b) |-> Hundredths(i)]
                          d == 100 * hits - SumOver(conf, InBin(b))
                      IN  IF d < 0 THEN -d ELSE d]
            ece == results.calibration_error
        IN  /\ ece.none <=> carrying = {}
            /\ carrying # {} =>
                  ece.num * (100 * Cardinality(carrying))
                      = SumOver(gap, 0..9) * ece.den

\* reached: a calibration error measured over the one prediction that
\* carries a confidence, which is 0.0, next to one that carries none
C16_Witness ==
    /\ results.computed
    /\ Len(_predictions) = 2
    /\ _predictions[1].confidence.none
    /\ _predictions[2].confidence = Dec(0, 0)
    /\ _predictions[2].is_correct
    /\ ~results.calibration_error.none
    /\ results.calibration_error.num = results.calibration_error.den

\* the stored predictions whose reasoning text has more than 20 characters
Qualifying ==
    {i \in 1..Len(_predictions) :
        /\ ~_predictions[i].reasoning.none
        /\ Len(_predictions[i].reasoning.text) > 20}

\* twice the sum of the heuristic scores of the qualifying predictions
QualifyingHalfPoints ==
    SumOver([i \in Qualifying |-> HalfPointsOf[_predictions[i].reasoning.text]],
            Qualifying)

\* C19 as stated: the reasoning quality is the mean of the heuristic scores
\* of the stored predictions whose reasoning text has more than 20
\* characters, and is absent when there is none.
C19_ExactMean ==
    (results.computed /\ results.raised = "") =>
        /\ results.reasoning_quality.none <=> Qualifying = {}
        /\ Qualifying # {} =>
              Scaled(results.reasoning_quality, 2) * 2 * Cardinality(Qualifying)
                  = 100 * QualifyingHalfPoints

\* C19 as amended: the reasoning quality is that mean rounded to two
\* decimals (it differs from the mean by at most 0.005); predictions with no
\* reasoning, an empty one or one of at most 20 characters count neither in
\* the sum nor in the divisor, and the metric is absent when none qualifies.
C19_RoundedMean ==
    (results.computed /\ results.raised = "") =>
        /\ results.reasoning_quality.none <=> Qualifying = {}
        /\ Qualifying # {} =>
              LET hundredths == Scaled(results.reasoning_quality, 2)
                  n == Cardinality(Qualifying)
                  d == hundredths * 2 * n - 100 * QualifyingHalfPoints
              IN  /\ results.reasoning_quality.d <= 2
                  /\ -n <= d /\ d <= n

\* reached: a text of 20 characters is left out and texts of 21 and 24
\* characters, scored 2.0 and 1.0, give 1.5
C19_Witness ==
    /\ results.computed
    /\ Len(_predictions) = 3
    /\ Qualifying = {2, 3}
    /\ ~_predictions[1].reasoning.none
    /\ Len(_predictions[1].reasoning.text) = 20
    /\ Len(_predictions[2].reasoning.text) = 21
    /\ HalfPointsOf[_predictions[2].reasoning.text] = 4
    /\ HalfPointsOf[_predictions[3].reasoning.text] = 2
    /\ results.reasoning_quality = Dec(150, 2)

\* reached: a result over three predictions of which the second alone is
\* correct, so that its parts differ from it in every statistic
C15_Witness ==
    /\ results.computed
    /\ Len(_predictions) = 3
    /\ ~_predictions[1].is_correct
    /\ _predictions[2].is_correct
    /\ ~_predictions[3].is_correct
    /\ _predictions[1].category # _predictions[2].category
    /\ _predictions[2].difficulty = _predictions[3].difficulty
    /\ results.correct_count = 1

-----------------------------------------------------------------------------
(* Properties of add_batch and of the runner (BatchSpec) *)

\* C13: add_batch(predictions, references) appends one graded record for
\* each prediction whose id is the id of some reference, in the order of the
\* predictions; a prediction whose id matches no reference adds nothing and
\* stops nothing, and the predictions stored before are unchanged.
C13_BatchJoin ==
    batch.called =>
        LET matched ==
                SelectSeq(batch.predictions,
                          LAMBDA p : \E k \in 1..Len(batch.references) :
                                        batch.references[k].id = p.id)
            old == Len(batch.before)
        IN  /\ Len(_predictions) = old + Len(matched)
            /\ SubSeq(_predictions, 1, old) = batch.before
            /\ \A j \in 1..Len(matched) :
                  LET stored == _predictions[old + j]
                  IN  /\ stored.problem_id = matched[j].id
                      /\ stored.predicted_answer = matched[j].predicted
                      /\ stored.reasoning = matched[j].reasoning
                      /\ stored.confidence = matched[j].confidence
                      /\ stored.is_correct \in BOOLEAN
                      /\ \E k \in 1..Len(batch.references) :
                            /\ batch.references[k].id = stored.problem_id
                            /\ batch.references[k].correct_answer
                                  = stored.correct_answer
                            /\ batch.references[k].category = stored.category
                            /\ batch.references[k].difficulty
                                  = stored.difficulty

\* reached: a batch whose first prediction has no reference and whose second
\* has one, added to an aggregator that already held a prediction
C13_Witness ==
    /\ batch.called
    /\ Len(batch.before) = 1
    /\ Len(batch.predictions) = 2
    /\ ~HasReference(batch.references, batch.predictions[1].id)
    /\ HasReference(batch.references, batch.predictions[2].id)
    /\ Len(_predictions) = 2
    /\ _predictions[2].problem_id = batch.predictions[2].id

\* C14: every prediction recorded from a problem record, through add_batch or
\* through the runner, is graded with the answer type and the tolerance that
\* the problem record declares.
C14_DeclaredTolerance ==
    \A i \in 1..Len(_predictions) :
        \A q \in ReferenceRecords :
            (/\ q.id = _predictions[i].problem_id
             /\ q.correct_answer = _predictions[i].correct_answer) =>
                _predictions[i].is_correct
                    = _check_correctness(_predictions[i].predicted_answer,
                                         q.correct_answer, q.answer_type,
                                         q.tolerance).value

-----------------------------------------------------------------------------
(* Properties of the calibration estimator (CalibrationSpec) *)

Calibrated == pc = "done"

\* the confidences of the stored predictions, all within [0, 1]
UnitConfidences ==
    \A i \in 1..Len(_predictions) :
        \/ _predictions[i].confidence.none
        \/ /\ DecLessEq(Dec(0, 0), _predictions[i].confidence)
           /\ DecLessEq(_predictions[i].confidence, Dec(1, 0))

\* C17: every confidence c in [0, 1] is put into the bin of index
\* min(floor(c * n_bins), n_bins - 1), which lies in 0..n_bins-1: 1.0 falls
\* into the last bin, and no access outside the n_bins bins occurs (nothing
\* is raised, and the returned value is the one these bin indices give).
C17_BinIndexInRange ==
    (Calibrated /\ UnitConfidences) =>
        LET n_bins == CalibrationBins
            carrying == {i \in 1..Len(_predictions) :
                            ~_predictions[i].confidence.none}
            Hundredths(i) == Scaled(_predictions[i].confidence, 2)
            Floor(i) == (Hundredths(i) * n_bins) \div 100
            BinOf(i) == IF Floor(i) <= n_bins - 1 THEN Floor(i) ELSE n_bins - 1
            InBin(b) == {i \in carrying : BinOf(i) = b}
            gap == [b \in 0..(n_bins - 1) |->
                      LET hits == Cardinality({i \in InBin(b) :
                                                 _predictions[i].is_correct})
                          conf == [i \in InBin(b) |-> Hundredths(i)]
                          d == 100 * hits - SumOver(conf, InBin(b))
                      IN  IF d < 0 THEN -d ELSE d]
        IN  /\ outcome.raised = ""
            /\ \A i \in carrying :
                  /\ BinIndex(_predictions[i].confidence, n_bins) = BinOf(i)
                  /\ BinOf(i) \in 0..(n_bins - 1)
                  /\ _predictions[i].confidence = Dec(1, 0)
                         => BinOf(i) = n_bins - 1
            /\ carrying # {} =>
                  outcome.value.num * (100 * Cardinality(carrying))
                      = SumOver(gap, 0..(n_bins - 1)) * outcome.value.den

\* reached: an incorrect prediction of confidence 1.0 and a correct one of
\* confidence 0.95 share the last bin: the error is |1 - 1.95| / 2
C17_Witness ==
    /\ Calibrated
    /\ Len(_predictions) = 2
    /\ _predictions[1].confidence = Dec(1, 0) /\ ~_predictions[1].is_correct
    /\ _predictions[2].confidence = Dec(95, 2) /\ _predictions[2].is_correct
    /\ outcome.raised = ""
    /\ outcome.value.num * 200 = 95 * outcome.value.den

-----------------------------------------------------------------------------
(* Properties of the rubric grader (RubricSpec) *)

C21_FullCredit ==
    LET ids == {criteria[i].id : i \in 1..Len(criteria)}
        p == overall_pct(rubric.value)
    IN  (/\ rubric.raised = ""
         /\ \A id \in ids : id \in DOMAIN judgments /\ judgments[id]
         /\ \A i \in 1..Len(criteria) : criteria[i].weight >= 0)
            => p.den # 0 /\ p.num = 100 * p.den

\* C21 as amended: with every criterion id mapped to true and non-negative
\* weights, the overall percentage is exactly 100 when the grader's
\* total_possible is positive, and 0 when it is 0.
C21_FullCreditOfPositiveTotal ==
    LET ids == {criteria[i].id : i \in 1..Len(criteria)}
        p == overall_pct(rubric.value)
    IN  (/\ rubric.raised = ""
         /\ \A id \in ids : id \in DOMAIN judgments /\ judgments[id]
         /\ \A i \in 1..Len(criteria) : criteria[i].weight >= 0)
            => /\ p.den # 0
               /\ rubric.value.overall_earned = total_possible(criteria)
               /\ IF total_possible(criteria) > 0 THEN p.num = 100 * p.den
                  ELSE p.num = 0

\* reached: the default criteria, every one of them met: 51 of 51
C21_Witness ==
    /\ rubric.raised = ""
    /\ criteria = DEFAULT_CRITERIA
    /\ judgments = [id \in DefaultIds |-> TRUE]
    /\ rubric.value.overall_earned = 51
    /\ overall_pct(rubric.value) = Ratio(5100, 51)

\* C22: a criterion with no entry in the judgments map is treated as not
\* met: the result of score is the one of the map with every missing id
\* mapped to false, and the one of the map with its false entries left out;
\* the empty map gives the result of the all-false map, with overall
\* percentage 0, every category earned 0 and every criterion result false.
C22_MissingIsNotMet ==
    rubric.raised = "" =>
        LET ids == {criteria[i].id : i \in 1..Len(criteria)}
            explicit == [id \in DOMAIN judgments \cup ids |->
                            id \in DOMAIN judgments /\ judgments[id]]
            trimmed == [id \in {j \in DOMAIN judgments : judgments[j]} |-> TRUE]
            cats == rubric.value.category_scores
        IN  /\ rubric.value = score(_by_category, explicit)
            /\ rubric.value = score(_by_category, trimmed)
            /\ DOMAIN judgments = {} =>
                  /\ rubric.value = score(_by_category, [id \in ids |-> FALSE])
                  /\ overall_pct(rubric.value).num = 0
                  /\ overall_pct(rubric.value).den # 0
                  /\ \A k \in 1..Len(cats) :
                        /\ cats[k].earned = 0
                        /\ \A id \in DOMAIN cats[k].criteria_results :
                              ~cats[k].criteria_results[id]

\* reached: the default criteria scored with no judgment at all: 0 of 51
C22_Witness ==
    /\ rubric.raised = ""
    /\ criteria = DEFAULT_CRITERIA
    /\ DOMAIN judgments = {}
    /\ rubric.value.overall_earned = 0
    /\ rubric.value.overall_possible = 51
    /\ overall_pct(rubric.value) = Ratio(0, 51)
    /\ rubric.value = score(_by_category, [id \in DefaultIds |-> FALSE])

\* C29: a grader constructed with an explicit criterion list holds exactly
\* that list: its categories are the categories of the given criteria and
\* its total_possible is the sum of the given weights; for the empty list
\* the total is 0, and a score has overall_possible 0 and percentage 0.
C29_ExplicitList ==
    (construction.via = "__init__" /\ ~construction.argument.none) =>
        LET given == construction.argument.list
        IN  /\ criteria = given
            /\ {_by_category[k].category : k \in 1..Len(_by_category)}
                  = {given[i].category : i \in 1..Len(given)}
            /\ total_possible(criteria)
                  = SumOver([i \in 1..Len(given) |-> given[i].weight],
                            1..Len(given))
            /\ (given = <<>> /\ rubric.raised = "") =>
                  /\ rubric.value.overall_possible = 0
                  /\ overall_pct(rubric.value).num = 0

-----------------------------------------------------------------------------
(* Properties of from_yaml (LoadSpec) *)

\* C23: from_yaml either raises or returns a grader in which every criterion
\* has an id, a description and an integer weight >= 0.
C23_LoadsOnlyWellFormed ==
    (/\ construction.via = "from_yaml"
     /\ construction.raised = ""
     /\ \E k \in 1..Len(construction.argument.categories) :
           construction.argument.categories[k] # <<>>)
        => \A i \in 1..Len(criteria) :
              /\ criteria[i].id.type = "str"
              /\ criteria[i].description.type = "str"
              /\ criteria[i].weight.type = "int"
              /\ criteria[i].weight.value >= 0

-----------------------------------------------------------------------------
(* Properties of analyze_coverage (CoverageSpec) *)

\* C24: the report of analyze_coverage has total_problems the length of the
\* list, unmapped the number of entries whose category has no FLaME tag, for
\* each FLaME tag the number of entries whose category maps to it, and for
\* each pathway the number of mapped entries of that pathway; every mapped
\* entry is under exactly one pathway, so unmapped plus the pathway counts
\* is total_problems.
C24_CoverageCounts ==
    coverage.called =>
        LET list == coverage.problem_categories
            result == coverage.result
            Tags(cat) ==
                IF cat \in DOMAIN CATEGORY_TO_FLAME
                THEN {CATEGORY_TO_FLAME[cat][k] :
                         k \in 1..Len(CATEGORY_TO_FLAME[cat])}
                ELSE {}
            mapped == {i \in 1..Len(list) : Tags(list[i]) # {}}
            Pathways(i) ==
                {fp \in DOMAIN result.finrate_coverage :
                    /\ list[i] \in DOMAIN CATEGORY_TO_FINRATE
                    /\ CATEGORY_TO_FINRATE[list[i]] = fp}
        IN  /\ result.total_problems = Len(list)
            /\ result.unmapped = Len(list) - Cardinality(mapped)
            /\ DOMAIN result.flame_coverage
                  = {FLAME_CATEGORIES[k] : k \in 1..Len(FLAME_CATEGORIES)}
            /\ \A fc \in DOMAIN result.flame_coverage :
                  result.flame_coverage[fc]
                      = Cardinality({i \in mapped : fc \in Tags(list[i])})
            /\ DOMAIN result.finrate_coverage
                  = {FINRATE_QA_PATHWAYS[k] : k \in 1..Len(FINRATE_QA_PATHWAYS)}
            /\ \A fp \in DOMAIN result.finrate_coverage :
                  result.finrate_coverage[fp]
                      = Cardinality({i \in mapped : fp \in Pathways(i)})
            /\ \A i \in mapped : Cardinality(Pathways(i)) = 1
            /\ result.unmapped
                  + SumOver(result.finrate_coverage, DOMAIN result.finrate_coverage)
                  = result.total_problems

\* reached: two mapped entries of different pathways, one of them with three
\* tags, and an entry that is not in the tables
C24_Witness ==
    /\ coverage.called
    /\ coverage.problem_categories
          = <<"cross_entity_qa", "nonexistent_category", "earnings_surprise">>
    /\ coverage.result.total_problems = 3
    /\ coverage.result.unmapped = 1
    /\ coverage.result.flame_coverage["question_answering"] = 2
    /\ coverage.result.flame_coverage["classification"] = 2
    /\ coverage.result.flame_coverage["information_retrieval"] = 1
    /\ coverage.result.flame_coverage["summarization"] = 0
    /\ coverage.result.finrate_coverage["cross_entity_qa"] = 1
    /\ coverage.result.finrate_coverage["detail_oriented_qa"] = 1
    /\ coverage.result.finrate_coverage["longitudinal_qa"] = 0

-----------------------------------------------------------------------------
(* Properties of the leaderboard (BoardSpec) *)

\* C25: after any sequence of add_entry calls on a leaderboard that started
\* empty, the entries are in non-increasing order of overall_accuracy and
\* the entry at position i (from 1) has rank i.
C25_SortedAndRanked ==
    /\ \A i \in 1..Len(entries) : entries[i].rank = i
    /\ \A i \in 1..Len(entries) : \A j \in i..Len(entries) :
          ~DecLess(entries[i].overall_accuracy, entries[j].overall_accuracy)

\* reached: the less accurate model submitted first, the more accurate one
\* second and ranked first
C25_Witness ==
    /\ last_add.called
    /\ Len(last_add.before) = 1
    /\ last_add.before[1].model_name = "TestModel2"
    /\ last_add.before[1].overall_accuracy = Dec(80, 2)
    /\ last_add.entry.model_name = "TestModel1"
    /\ last_add.entry.overall_accuracy = Dec(85, 2)
    /\ Len(entries) = 2
    /\ entries[1].model_name = "TestModel1" /\ entries[1].rank = 1
    /\ entries[2].model_name = "TestModel2" /\ entries[2].rank = 2

\* C26: add_entry returns the rank the submitted model holds after the call:
\* a value in 1..n, the rank of the stored entry of the submitted
\* (model_name, model_version).
C26_ReturnsStoredRank ==
    last_add.called =>
        /\ last_add.returned \in 1..Len(entries)
        /\ \E i \in 1..Len(entries) :
              /\ entries[i].model_name = last_add.entry.model_name
              /\ entries[i].model_version = last_add.entry.model_version
              /\ entries[i].rank = last_add.returned

\* C27: there is at most one entry per (model_name, model_version); a call
\* of add_entry removes no entry and lowers no stored accuracy, and the
\* stored entry of the submitted model is replaced exactly when the
\* submitted accuracy is strictly greater.
C27_OnePerModelNeverWorse ==
    /\ \A i, j \in 1..Len(entries) :
          (/\ entries[i].model_name = entries[j].model_name
           /\ entries[i].model_version = entries[j].model_version) => i = j
    /\ last_add.called =>
          LET before == last_add.before
              Same(a, b) == /\ a.model_name = b.model_name
                            /\ a.model_version = b.model_version
          IN  /\ Len(entries) >= Len(before)
              /\ \A k \in 1..Len(before) : \E i \in 1..Len(entries) :
                    /\ Same(entries[i], before[k])
                    /\ ~DecLess(entries[i].overall_accuracy,
                                before[k].overall_accuracy)
                    /\ entries[i].overall_accuracy # before[k].overall_accuracy
                          => /\ Same(before[k], last_add.entry)
                             /\ entries[i].overall_accuracy
                                   = last_add.entry.overall_accuracy
                             /\ DecLess(before[k].overall_accuracy,
                                        last_add.entry.overall_accuracy)
              /\ \A k \in 1..Len(before) :
                    (/\ Same(before[k], last_add.entry)
                     /\ DecLess(before[k].overall_accuracy,
                                last_add.entry.overall_accuracy))
                        => \E i \in 1..Len(entries) :
                              /\ Same(entries[i], last_add.entry)
                              /\ entries[i].overall_accuracy
                                    = last_add.entry.overall_accuracy

\* reached: a resubmission with a lower accuracy, which leaves the stored
\* entry as it was
C27_Witness ==
    /\ last_add.called
    /\ Len(last_add.before) = 2
    /\ last_add.before[1].model_name = "TestModel1"
    /\ last_add.before[1].overall_accuracy = Dec(85, 2)
    /\ last_add.entry.model_name = "TestModel1"
    /\ last_add.entry.model_version = "None"
    /\ last_add.entry.overall_accuracy = Dec(80, 2)
    /\ entries = last_add.before

-----------------------------------------------------------------------------
(* Properties of the retry loop (RetrySpec) *)

====
